---- MODULE Spec2Model ----
(***************************************************************************)
(* The scan orchestration of AMTD: ScanExecutor.execute_scan               *)
(* (src/src/scan_manager/scan_executor.py) driving a ZAPScanner            *)
(* (src/src/scan_manager/zap_scanner.py) and normalising the alerts with   *)
(* ScanResultParser (src/src/scan_manager/scan_result_parser.py).          *)
(*                                                                         *)
(* One ScanExecutor is modelled.  pc is the position inside execute_scan;  *)
(* the container runtime and the engine are the environment: every call    *)
(* to them returns one of the outcomes the call can have.                  *)
(***************************************************************************)
EXTENDS Integers, Sequences, FiniteSets, TLC

VARIABLES
  cfg,           \* self.config, fixed at construction
  pc,            \* position in execute_scan ("idle" before, "done" after)
  scanner,       \* self.scanner: FALSE is None, TRUE a ZAPScanner
  container,     \* scanner.container: "None" or "handle"
  zap_url,       \* scanner.zap_url: "None" or "url"
  scan_results,  \* self.scan_results, a dict: key -> value
  exc,           \* the exception in flight ("none" when there is none)
  elapsed,       \* time.time() - start_time of the poll loop run last
  success,       \* what wait_for_spider / wait_for_active_scan returned
  runtime,       \* the runtime's container named amtd-zap-<scan_id>
  outcome,       \* how the last execute_scan left: "returned" or "raised"
  call,          \* the engine endpoint requested by the last step, or "none"
  phase,         \* per phase of this run: what has happened to it
  cleanup_log,   \* the cleanup steps taken in this run, in order
  cleanups,      \* invocations of _cleanup in this run
  warnings,      \* the warnings logged by the orchestrator in this run
  polled,        \* the number the poll of the last step returned, or -1
  raw_alerts,    \* execute_scan's alerts: what get_alerts returned
  called,        \* the engine endpoints requested in this run
  polls,         \* phase -> the polls its loop has made in this run, kept
                 \* until the run reaches its except or finally clause
  removed_old,   \* whether start_container removed a container of its name,
                 \* kept until the target is read or the except clause runs
  ready,         \* whether a readiness probe of this run has returned 200
  jobs,          \* concurrent executors: job -> its ScanExecutor's state
  docker,        \* the names of the containers the docker daemon holds
  touched,       \* job -> the container names the job has operated on
  given,         \* the alert list handed to ScanResultParser.parse_alerts
  parsed,        \* what parse_alerts returned for it
  unique,        \* what deduplicate returned last
  stage,         \* how far the parser's methods have been applied
  min_confidence,\* the min_confidence handed to filter_by_confidence
  filtered,      \* what filter_by_confidence returned
  api_url,       \* a ZAPScanner's zap_url when its methods are called
  api_reply,     \* what requests.get does for that scanner's requests
  policy_name,   \* the active-scan policy name configured for the job
  sent,          \* the request the scanner's last call put on the wire
  result         \* what the scanner's last _api_call returned or raised

\* The state of the concurrent executors.
fleet == <<jobs, docker, touched>>

\* The state of the parser taken alone.
bench == <<given, parsed, unique, stage, min_confidence, filtered>>

\* The state of a scanner's calls to the engine taken alone.
wire == <<api_url, api_reply, policy_name, sent, result>>

vars == <<cfg, pc, scanner, container, zap_url, scan_results, exc, elapsed,
          success, runtime, outcome, call, phase, cleanup_log, cleanups,
          warnings, polled, raw_alerts, called, polls, removed_old, ready,
          fleet, bench, wire>>

\* ------------------------------------------------------------ constants

ZapReadyTimeout == 120
ZapReadyInterval == 2
SpiderTimeout == 1800
SpiderInterval == 5
PassiveTimeout == 300
PassiveInterval == 5
DefaultActiveTimeout == 7200
ActiveInterval == 10

\* A sleep lasts at least the interval asked for.  In the model a poll loop
\* sleeps exactly its interval at most MaxPolls - 1 times; any further
\* sleep is a long one that reaches the loop's deadline.
MaxPolls == 3

\* ------------------------------------------------------------ dicts

\* d.get(k, default)
Get(d, k, default) == IF k \in DOMAIN d THEN d[k] ELSE default

\* d.update(e): the keys of e replace those of d
Update(d, e) == e @@ d

EmptyDict == [k \in {} |-> "none"]

\* A key the record does not have; None where a text is expected.
Missing == "<missing>"

\* ------------------------------------------------------------ configuration

\* A phase's 'enabled' key is absent ("unset"), True or False.  The toggles
\* of the modelled configurations: the key is absent, or it is given and
\* differs from the phase's default.
DefaultOn == {"unset", "false"}
DefaultOff == {"unset", "true"}

\* scan.timeout: <<>> when the key is absent, <<t>> when it is t.
ConfigTimeouts == {<<>>, <<-1>>, <<0>>, <<ActiveInterval>>}

\* The configurations a ScanExecutor is built with: whether application.url
\* is given, the three policy_config toggles and scan.timeout.
Configs ==
  [url : BOOLEAN, spider : DefaultOn, ajax_spider : DefaultOff,
   active_scan : DefaultOn, timeout : ConfigTimeouts]

\* A toggle read without its default: an absent key counts as disabled.
enabled_without_default(toggle, default) == toggle = "true"

\* policy_config.get(name, {}).get('enabled', default)
enabled(toggle, default) == IF toggle = "unset" THEN default ELSE toggle = "true"

\* scan_config.get('timeout', 7200)
active_timeout(c) == IF c.timeout = <<>> THEN DefaultActiveTimeout ELSE c.timeout[1]

\* ------------------------------------------------------------ result parser

\* A severity table that is off by one code.
SEVERITY_MAP_shifted ==
  ("1" :> "info") @@ ("2" :> "low") @@ ("3" :> "medium") @@ ("4" :> "high")
  @@ ("5" :> "critical")

SEVERITY_MAP ==
  ("0" :> "info") @@ ("1" :> "low") @@ ("2" :> "medium") @@ ("3" :> "high")
  @@ ("4" :> "critical")

CONFIDENCE_MAP ==
  ("0" :> "false_positive") @@ ("1" :> "low") @@ ("2" :> "medium")
  @@ ("3" :> "high") @@ ("4" :> "confirmed")

\* A code of an engine record is a Python value.  A text is written as it
\* is ("4"); an int is written with a leading i ("i4").
IntValues == {"i0", "i1", "i2", "i3", "i4", "i9"}

\* The codes int() accepts; an engine record may carry others.
Numerals == {"0", "1", "2", "3", "4", "9"} \cup IntValues

\* int(s) of a numeral
int(s) ==
  CASE s \in {"0", "i0"} -> 0 [] s \in {"1", "i1"} -> 1
    [] s \in {"2", "i2"} -> 2 [] s \in {"3", "i3"} -> 3
    [] s \in {"4", "i4"} -> 4 [] s \in {"9", "i9"} -> 9

\* str(v): the digits of an int, a text itself
str(v) ==
  CASE v = "i0" -> "0" [] v = "i1" -> "1" [] v = "i2" -> "2"
    [] v = "i3" -> "3" [] v = "i4" -> "4" [] v = "i9" -> "9"
    [] OTHER -> v

\* _parse_alert, lines 91-93
severity_of(alert) == Get(SEVERITY_MAP, str(Get(alert, "risk", "0")), "info")

\* A confidence lookup that falls back to the name of code 0.
confidence_of_falling_to_zero(alert) ==
  Get(CONFIDENCE_MAP, str(Get(alert, "confidence", "0")), "false_positive")

\* _parse_alert, lines 95-97
confidence_of(alert) ==
  Get(CONFIDENCE_MAP, str(Get(alert, "confidence", "0")), "low")

\* Whether _parse_alert raises on the alert: int(risk) or
\* int(confidence_level) of a code that is no numeral.
parse_raises(alert) ==
  \/ Get(alert, "risk", "0") \notin Numerals
  \/ Get(alert, "confidence", "0") \notin Numerals

\* _parse_alert on an alert it does not raise on (the fields the
\* statistics and the filters read).
_parse_alert(alert) ==
  LET risk == Get(alert, "risk", "0")
      confidence_level == Get(alert, "confidence", "0")
  IN [severity |-> severity_of(alert),
      confidence |-> confidence_of(alert),
      risk_code |-> int(risk),
      confidence_code |-> int(confidence_level),
      type |-> Get(alert, "alert", Get(alert, "name", "Unknown")),
      url |-> Get(alert, "url", ""),
      parameter |-> Get(alert, "param", "")]

ZeroStatistics ==
  [critical |-> 0, high |-> 0, medium |-> 0, low |-> 0, info |-> 0, total |-> 0]

\* A count that leaves informational findings out of the total.
count_finding_without_info(statistics, vuln) ==
  LET severity == vuln.severity
      bumped == Update(statistics, severity :> (Get(statistics, severity, 0) + 1))
  IN IF severity = "info" THEN bumped
     ELSE Update(bumped, "total" :> (bumped.total + 1))

\* statistics[severity] = statistics.get(severity, 0) + 1; total += 1
count_finding(statistics, vuln) ==
  LET severity == vuln.severity
      bumped == Update(statistics, severity :> (Get(statistics, severity, 0) + 1))
  IN Update(bumped, "total" :> (bumped.total + 1))

\* A loop without the try block: the first record that raises ends the pass.
RECURSIVE parse_from_aborting(_, _, _, _)
parse_from_aborting(alerts, i, vulnerabilities, statistics) ==
  IF i > Len(alerts) \/ parse_raises(alerts[i])
  THEN [vulnerabilities |-> vulnerabilities, statistics |-> statistics]
  ELSE LET vuln == _parse_alert(alerts[i])
       IN parse_from_aborting(alerts, i + 1, Append(vulnerabilities, vuln),
                              count_finding(statistics, vuln))

\* The loop of parse_alerts from alert i on, with the findings and the
\* statistics accumulated so far.
RECURSIVE parse_from(_, _, _, _)
parse_from(alerts, i, vulnerabilities, statistics) ==
  IF i > Len(alerts)
  THEN [vulnerabilities |-> vulnerabilities, statistics |-> statistics]
  ELSE IF parse_raises(alerts[i])
       THEN parse_from(alerts, i + 1, vulnerabilities, statistics)
       ELSE LET vuln == _parse_alert(alerts[i])
            IN parse_from(alerts, i + 1, Append(vulnerabilities, vuln),
                          count_finding(statistics, vuln))

parse_alerts(alerts) == parse_from(alerts, 1, <<>>, ZeroStatistics)

\* ------------------------------------------------------------ engine and clock

VersionEndpoint == "core/view/version/"
SpiderMaxDepthEndpoint == "spider/action/setOptionMaxDepth/"
SpiderMaxChildrenEndpoint == "spider/action/setOptionMaxChildren/"
SpiderScanEndpoint == "spider/action/scan/"
SpiderStatusEndpoint == "spider/view/status/"
AjaxMaxDurationEndpoint == "ajaxSpider/action/setOptionMaxDuration/"
AjaxScanEndpoint == "ajaxSpider/action/scan/"
RecordsEndpoint == "pscan/view/recordsToScan/"
ActiveScanEndpoint == "ascan/action/scan/"
ActiveStatusEndpoint == "ascan/view/status/"
AlertsEndpoint == "core/view/alerts/"
ShutdownEndpoint == "core/action/shutdown/"

Phases == <<"Spider", "AjaxSpider", "PassiveWait", "ActiveScan", "Collect">>
PhaseSet == {Phases[i] : i \in 1..Len(Phases)}

\* The phase an endpoint belongs to ("none": readiness probe and shutdown).
PhaseOf(endpoint) ==
  CASE endpoint \in {SpiderMaxDepthEndpoint, SpiderMaxChildrenEndpoint,
                     SpiderScanEndpoint, SpiderStatusEndpoint} -> "Spider"
    [] endpoint \in {AjaxMaxDurationEndpoint, AjaxScanEndpoint} -> "AjaxSpider"
    [] endpoint = RecordsEndpoint -> "PassiveWait"
    [] endpoint \in {ActiveScanEndpoint, ActiveStatusEndpoint} -> "ActiveScan"
    [] endpoint = AlertsEndpoint -> "Collect"
    [] OTHER -> "none"

\* What _api_call can do on a structured endpoint: raise before any request
\* when there is no zap_url; otherwise send the request and return the
\* parsed reply, or raise (transport failure, raise_for_status).
api_outcomes(url) == IF url = "None" THEN {"not_started"} ELSE {"ok", "error"}

\* The endpoint a call puts on the wire, "none" when it raised before.
requested(endpoint, o) == IF o = "not_started" THEN "none" ELSE endpoint

api_error(o) == IF o = "not_started" THEN "ZAP container not started" ELSE "HTTPError"

\* The numerals a status or a count reply may carry.
int_of(s) ==
  CASE s = "0" -> 0 [] s = "3" -> 3 [] s = "50" -> 50 [] s = "100" -> 100
    [] s = "101" -> 101

StatusValues == {"0", "50", "100", "101", "x"}
RecordsValues == {"0", "3", "x"}
ReplyNumerals == {"0", "3", "50", "100", "101"}

\* The JSON replies to a status poll and to a records poll: the field may be
\* missing, and may be no number.
StatusReplies == {EmptyDict} \cup {("status" :> v) : v \in StatusValues}
RecordsReplies == {EmptyDict} \cup {("recordsToScan" :> v) : v \in RecordsValues}

\* elapsed after time.sleep(interval) in a loop with the given deadline: a
\* sleep of the interval (while the loop has polled fewer than MaxPolls
\* times) or a long one that reaches the deadline.
Sleep(e, interval, timeout) ==
  {e + interval : x \in IF e + interval < MaxPolls * interval THEN {1} ELSE {}}
  \cup {IF timeout > e + interval THEN timeout ELSE e + interval}

\* The alert records of the orchestration runs.
Critical == ("risk" :> "4") @@ ("confidence" :> "3")
Low == ("risk" :> "1") @@ ("confidence" :> "1")
Malformed == ("risk" :> "x") @@ ("confidence" :> "2")

\* The alert lists the engine returns in the orchestration runs: none, the
\* two well-formed records, and a list with a malformed record.
FetchedAlerts == {<<>>, <<Critical, Low>>, <<Malformed, Low>>}

\* ------------------------------------------------------------ execute_scan

NoPolls == [p \in {"Spider", "PassiveWait", "ActiveScan"} |-> 0]

NoPhase == [p \in PhaseSet |-> "not_run"]

Mark(p, what) == phase' = [phase EXCEPT ![p] = what]

\* An exception leaves the try block: control goes to the except clause.
Raise(message) == exc' = message /\ pc' = "except"

\* The step sends a request to the endpoint (none when it is "none").
Request(endpoint) ==
  /\ call' = endpoint
  /\ called' = IF endpoint = "none" THEN called ELSE called \cup {endpoint}

\* No parser method has been applied to anything.
bench_idle ==
  /\ given = <<>>
  /\ parsed = [vulnerabilities |-> <<>>, statistics |-> ZeroStatistics]
  /\ unique = <<>>
  /\ stage = "input"
  /\ min_confidence = "medium"
  /\ filtered = <<>>

\* A response of status 200 for requests.get.
Ok200 == [raised |-> FALSE, status_code |-> 200]

NoRequest == [endpoint |-> "none", params |-> EmptyDict]

Pending == [kind |-> "pending", value |-> "none"]

\* No method of a scanner has been called outside execute_scan.
wire_idle ==
  /\ api_url = "None"
  /\ api_reply = Ok200
  /\ policy_name = Missing
  /\ sent = NoRequest
  /\ result = Pending

\* Two executors run side by side, each in a process of its own.
Jobs == {1, 2}

\* The values uuid.uuid4() gives; two calls never give the same one.
ScanIds == <<"id_a", "id_b", "id_c">>

\* None where a container name is expected.
NoName == <<>>

\* ScanExecutor.__init__ with the given uuid: nothing has run.
NewExecutor(scan_id) ==
  [scan_id |-> scan_id, pc |-> "idle", scanner |-> FALSE,
   container |-> NoName, zap_url |-> NoName, status |-> "absent"]

Init ==
  /\ cfg \in Configs
  /\ pc = "idle"
  /\ scanner = FALSE
  /\ container = "None"
  /\ zap_url = "None"
  /\ scan_results = EmptyDict
  /\ exc = "none"
  /\ elapsed = 0
  /\ success = FALSE
  /\ runtime \in {"absent", "stale"}
  /\ outcome = "none"
  /\ call = "none"
  /\ phase = NoPhase
  /\ cleanup_log = <<>>
  /\ cleanups = 0
  /\ warnings = {}
  /\ polled = -1
  /\ raw_alerts = <<>>
  /\ called = {}
  /\ polls = NoPolls
  /\ removed_old = FALSE
  /\ ready = FALSE
  /\ jobs = [j \in Jobs |-> NewExecutor(ScanIds[j])]
  /\ docker = {}
  /\ touched = [j \in Jobs |-> {}]
  /\ bench_idle
  /\ wire_idle

\* execute_scan is entered (again, after it has left).  A container the
\* last run left behind is a stale one to this run.
execute_scan ==
  /\ pc \in {"idle", "done"}
  /\ pc' = "initialize"
  /\ exc' = "none"
  /\ elapsed' = 0
  /\ success' = FALSE
  /\ outcome' = "none"
  /\ call' = "none"
  /\ called' = {}
  /\ phase' = NoPhase
  /\ cleanup_log' = <<>>
  /\ cleanups' = 0
  /\ warnings' = {}
  /\ polled' = -1
  /\ raw_alerts' = <<>>
  /\ runtime' = IF runtime = "absent" THEN "absent" ELSE "stale"
  /\ polls' = NoPolls
  /\ ready' = FALSE
  /\ UNCHANGED <<removed_old, fleet, bench, wire, cfg, scanner, container, zap_url, scan_results>>

\* _initialize_scanner: ZAPScanner(...), whose docker.from_env() may raise;
\* self.scanner is assigned only when it returns.
_initialize_scanner ==
  /\ pc = "initialize"
  /\ Request("none")
  /\ \/ /\ scanner' = TRUE
        /\ container' = "None"
        /\ zap_url' = "None"
        /\ pc' = "remove_old"
        /\ UNCHANGED exc
     \/ /\ Raise("DockerException")
        /\ UNCHANGED <<scanner, container, zap_url>>
  /\ UNCHANGED <<removed_old, ready, fleet, bench, wire, polls, cfg, scan_results, elapsed, success, runtime, outcome, phase,
                 cleanup_log, cleanups, warnings, polled, raw_alerts>>

\* A start_container that leaves a container of the same name in place.
start_container_keeping_old ==
  /\ pc = "remove_old"
  /\ Request("none")
  /\ \/ /\ pc' = "run"
        /\ UNCHANGED exc
     \/ Raise("DockerException")
  /\ UNCHANGED <<runtime, removed_old>>
  /\ UNCHANGED <<ready, fleet, bench, wire, polls, cfg, scanner, container, zap_url, scan_results, elapsed,
                 success, outcome, phase, cleanup_log, cleanups, warnings,
                 polled, raw_alerts>>

\* start_container, lines 66-73: a container of the same name is removed by
\* force; NotFound is passed over, any other error is raised.
start_container_remove_old ==
  /\ pc = "remove_old"
  /\ Request("none")
  /\ \/ /\ runtime = "absent"
        /\ pc' = "run"
        /\ UNCHANGED <<runtime, exc, removed_old>>
     \/ /\ runtime # "absent"
        /\ runtime' = "absent"
        /\ removed_old' = TRUE
        /\ pc' = "run"
        /\ UNCHANGED exc
     \/ /\ Raise("DockerException")
        /\ UNCHANGED <<runtime, removed_old>>
  /\ UNCHANGED <<ready, fleet, bench, wire, polls, cfg, scanner, container, zap_url, scan_results, elapsed,
                 success, outcome, phase, cleanup_log, cleanups, warnings,
                 polled, raw_alerts>>

\* start_container, lines 75-92: containers.run, then zap_url is set and
\* _wait_for_zap starts its clock.
start_container_run ==
  /\ pc = "run"
  /\ Request("none")
  /\ \/ /\ container' = "handle"
        /\ runtime' = "running"
        /\ zap_url' = "url"
        /\ elapsed' = 0
        /\ pc' = "wait_for_zap"
        /\ UNCHANGED exc
     \/ /\ Raise("DockerException")
        /\ UNCHANGED <<container, runtime, zap_url, elapsed>>
  /\ UNCHANGED <<removed_old, ready, fleet, bench, wire, polls, cfg, scanner, scan_results, success, outcome, phase,
                 cleanup_log, cleanups, warnings, polled, raw_alerts>>

\* What a readiness probe can get: status 200, another status, or a
\* RequestException (connection refused, read timeout).
Probes == {"200", "503", "RequestException"}

\* A _wait_for_zap that takes any HTTP response for ready, whatever its
\* status.
_wait_for_zap_any_status ==
  /\ pc = "wait_for_zap"
  /\ IF elapsed < ZapReadyTimeout
     THEN /\ Request(VersionEndpoint)
          /\ \E probe \in Probes :
               /\ pc' = IF probe = "RequestException" THEN "zap_sleep" ELSE "target"
               /\ ready' = (ready \/ probe = "200")
          /\ UNCHANGED exc
     ELSE /\ Request("none")
          /\ Raise("TimeoutError")
          /\ UNCHANGED ready
  /\ UNCHANGED <<removed_old, fleet, bench, wire, polls, cfg, scanner, container, zap_url, scan_results, elapsed,
                 success, runtime, outcome, phase, cleanup_log, cleanups,
                 warnings, polled, raw_alerts>>

\* A _wait_for_zap that returns after the deadline instead of raising.
_wait_for_zap_returning ==
  /\ pc = "wait_for_zap"
  /\ IF elapsed < ZapReadyTimeout
     THEN /\ Request(VersionEndpoint)
          /\ \E probe \in Probes :
               /\ pc' = IF probe = "200" THEN "target" ELSE "zap_sleep"
               /\ ready' = (ready \/ probe = "200")
     ELSE /\ Request("none")
          /\ pc' = "target"
          /\ UNCHANGED ready
  /\ UNCHANGED <<removed_old, fleet, bench, wire, polls, cfg, scanner, container, zap_url, scan_results, exc, elapsed,
                 success, runtime, outcome, phase, cleanup_log, cleanups,
                 warnings, polled, raw_alerts>>

\* _wait_for_zap: one turn of the loop up to the sleep, or the TimeoutError
\* after the deadline.  Only status 200 is ready; any other status and a
\* RequestException are not.
_wait_for_zap ==
  /\ pc = "wait_for_zap"
  /\ IF elapsed < ZapReadyTimeout
     THEN /\ Request(VersionEndpoint)
          /\ \E probe \in Probes :
               /\ pc' = IF probe = "200" THEN "target" ELSE "zap_sleep"
               /\ ready' = (ready \/ probe = "200")
          /\ UNCHANGED exc
     ELSE /\ Request("none")
          /\ Raise("TimeoutError")
          /\ UNCHANGED ready
  /\ UNCHANGED <<removed_old, fleet, bench, wire, polls, cfg, scanner, container, zap_url, scan_results, elapsed,
                 success, runtime, outcome, phase, cleanup_log, cleanups,
                 warnings, polled, raw_alerts>>

\* A readiness loop that takes its start time anew on every turn: after the
\* sleep no time has elapsed.
zap_sleep_restarting_clock ==
  /\ pc = "zap_sleep"
  /\ elapsed' = 0
  /\ pc' = "wait_for_zap"
  /\ Request("none")
  /\ UNCHANGED <<removed_old, ready, fleet, bench, wire, polls, cfg, scanner, container, zap_url, scan_results, exc, success,
                 runtime, outcome, phase, cleanup_log, cleanups, warnings,
                 polled, raw_alerts>>

\* _wait_for_zap, line 128
zap_sleep ==
  /\ pc = "zap_sleep"
  /\ elapsed' \in Sleep(elapsed, ZapReadyInterval, ZapReadyTimeout)
  /\ pc' = "wait_for_zap"
  /\ Request("none")
  /\ UNCHANGED <<removed_old, ready, fleet, bench, wire, polls, cfg, scanner, container, zap_url, scan_results, exc, success,
                 runtime, outcome, phase, cleanup_log, cleanups, warnings,
                 polled, raw_alerts>>

\* An execute_scan that does not check the target URL: the phases are run
\* on whatever the configuration gives.
read_target_without_check ==
  /\ pc = "target"
  /\ Request("none")
  /\ elapsed' = 0
  /\ scan_results' = Update(scan_results,
         [started_at |-> "start_time", target_url |-> "url",
          scan_type |-> "type"])
  /\ pc' = "spider"
  /\ removed_old' = FALSE
  /\ UNCHANGED <<ready, fleet, bench, wire, polls, cfg, scanner, container, zap_url, exc, success, runtime, outcome,
                 phase, cleanup_log, cleanups, warnings, polled, raw_alerts>>

\* execute_scan, lines 62-78: the target URL is required; the start is
\* recorded.
read_target ==
  /\ pc = "target"
  /\ Request("none")
  /\ elapsed' = 0
  /\ IF cfg.url
     THEN /\ scan_results' = Update(scan_results,
                 [started_at |-> "start_time", target_url |-> "url",
                  scan_type |-> "type"])
          /\ pc' = "spider"
          /\ UNCHANGED exc
     ELSE /\ Raise("ValueError: Target URL not specified")
          /\ UNCHANGED scan_results
  /\ removed_old' = FALSE
  /\ UNCHANGED <<ready, fleet, bench, wire, polls, cfg, scanner, container, zap_url, success, runtime, outcome,
                 phase, cleanup_log, cleanups, warnings, polled, raw_alerts>>

\* An _api_call whose error is caught inside the phase: the phase has raised
\* but the run goes on.
ApiStep_swallowing(here, endpoint, next) ==
  /\ pc = here
  /\ \E o \in api_outcomes(zap_url) :
       /\ Request(requested(endpoint, o))
       /\ pc' = next
       /\ exc' = exc
       /\ IF o = "ok" THEN UNCHANGED phase ELSE Mark(PhaseOf(endpoint), "raised")

\* One _api_call(endpoint) of a phase at position here: on a reply control
\* moves to next; on an error the exception leaves the try block.
ApiStep(here, endpoint, next) ==
  /\ pc = here
  /\ \E o \in api_outcomes(zap_url) :
       /\ Request(requested(endpoint, o))
       /\ IF o = "ok"
          THEN pc' = next /\ UNCHANGED <<exc, phase>>
          ELSE Raise(api_error(o)) /\ Mark(PhaseOf(endpoint), "raised")

\* A wait that tests its deadline after the poll instead of before it: it
\* polls once more when the deadline has passed.
WaitStep_deadline_after_poll(here, endpoint, timeout, sleep, done) ==
  /\ pc = here
  /\ polls' = [polls EXCEPT ![PhaseOf(endpoint)] = @ + 1]
  /\ \E o \in api_outcomes(zap_url) :
       /\ Request(requested(endpoint, o))
       /\ IF o = "ok"
          THEN \E response \in StatusReplies :
                 LET status == Get(response, "status", "0") IN
                 IF status \notin ReplyNumerals
                 THEN /\ Raise("ValueError: invalid literal for int()")
                      /\ Mark(PhaseOf(endpoint), "raised")
                      /\ UNCHANGED <<success, polled>>
                 ELSE /\ polled' = int_of(status)
                      /\ success' = (int_of(status) >= 100)
                      /\ pc' = IF int_of(status) >= 100 \/ elapsed >= timeout
                               THEN done ELSE sleep
                      /\ UNCHANGED <<exc, phase>>
          ELSE /\ Raise(api_error(o))
               /\ Mark(PhaseOf(endpoint), "raised")
               /\ UNCHANGED <<success, polled>>

\* A wait that takes a status of exactly 100 alone for complete.
WaitStep_exactly_100(here, endpoint, timeout, sleep, done) ==
  /\ pc = here
  /\ polls' = IF elapsed < timeout
              THEN [polls EXCEPT ![PhaseOf(endpoint)] = @ + 1] ELSE polls
  /\ IF elapsed < timeout
     THEN \E o \in api_outcomes(zap_url) :
            /\ Request(requested(endpoint, o))
            /\ IF o = "ok"
               THEN \E response \in StatusReplies :
                      LET status == Get(response, "status", "0") IN
                      IF status \notin ReplyNumerals
                      THEN /\ Raise("ValueError: invalid literal for int()")
                           /\ Mark(PhaseOf(endpoint), "raised")
                           /\ UNCHANGED <<success, polled>>
                      ELSE /\ polled' = int_of(status)
                           /\ success' = (int_of(status) = 100)
                           /\ pc' = IF int_of(status) = 100 THEN done ELSE sleep
                           /\ UNCHANGED <<exc, phase>>
               ELSE /\ Raise(api_error(o))
                    /\ Mark(PhaseOf(endpoint), "raised")
                    /\ UNCHANGED <<success, polled>>
     ELSE /\ Request("none")
          /\ success' = FALSE
          /\ pc' = done
          /\ UNCHANGED <<exc, phase, polled>>

\* wait_for_spider / wait_for_active_scan at position here: one turn of the
\* loop up to the sleep, or the return of False after the deadline.
WaitStep(here, endpoint, timeout, sleep, done) ==
  /\ pc = here
  /\ polls' = IF elapsed < timeout
              THEN [polls EXCEPT ![PhaseOf(endpoint)] = @ + 1] ELSE polls
  /\ IF elapsed < timeout
     THEN \E o \in api_outcomes(zap_url) :
            /\ Request(requested(endpoint, o))
            /\ IF o = "ok"
               THEN \E response \in StatusReplies :
                      LET status == Get(response, "status", "0") IN
                      IF status \notin ReplyNumerals
                      THEN /\ Raise("ValueError: invalid literal for int()")
                           /\ Mark(PhaseOf(endpoint), "raised")
                           /\ UNCHANGED <<success, polled>>
                      ELSE /\ polled' = int_of(status)
                           /\ success' = (int_of(status) >= 100)
                           /\ pc' = IF int_of(status) >= 100 THEN done ELSE sleep
                           /\ UNCHANGED <<exc, phase>>
               ELSE /\ Raise(api_error(o))
                    /\ Mark(PhaseOf(endpoint), "raised")
                    /\ UNCHANGED <<success, polled>>
     ELSE /\ Request("none")
          /\ success' = FALSE
          /\ pc' = done
          /\ UNCHANGED <<exc, phase, polled>>

\* time.sleep(interval) at the end of a turn of a poll loop
SleepStep(here, interval, timeout, back) ==
  /\ pc = here
  /\ elapsed' \in Sleep(elapsed, interval, timeout)
  /\ pc' = back
  /\ polled' = -1
  /\ Request("none")

\* execute_scan, lines 80-85
spider_gate ==
  /\ pc = "spider"
  /\ Request("none")
  /\ IF enabled(cfg.spider, TRUE)
     THEN pc' = "spider_max_depth" /\ Mark("Spider", "started")
     ELSE pc' = "ajax_spider" /\ Mark("Spider", "skipped")
  /\ UNCHANGED <<removed_old, ready, fleet, bench, wire, polls, cfg, scanner, container, zap_url, scan_results, exc, elapsed,
                 success, runtime, outcome, cleanup_log, cleanups, warnings,
                 polled, raw_alerts>>

\* A Spider that is started and not waited for.
spider_scan_without_wait ==
  /\ \/ ApiStep("spider_max_depth", SpiderMaxDepthEndpoint, "spider_max_children")
     \/ ApiStep("spider_max_children", SpiderMaxChildrenEndpoint, "spider_start")
     \/ ApiStep("spider_start", SpiderScanEndpoint, "ajax_spider")
  /\ elapsed' = 0
  /\ UNCHANGED <<removed_old, ready, fleet, bench, wire, polls, cfg, scanner, container, zap_url, scan_results, success,
                 runtime, outcome, cleanup_log, cleanups, warnings, polled,
                 raw_alerts>>

\* spider_scan: two option calls and the start call; wait_for_spider then
\* starts its clock.
spider_scan ==
  /\ \/ ApiStep("spider_max_depth", SpiderMaxDepthEndpoint, "spider_max_children")
     \/ ApiStep("spider_max_children", SpiderMaxChildrenEndpoint, "spider_start")
     \/ ApiStep("spider_start", SpiderScanEndpoint, "wait_for_spider")
  /\ elapsed' = 0
  /\ UNCHANGED <<removed_old, ready, fleet, bench, wire, polls, cfg, scanner, container, zap_url, scan_results, success,
                 runtime, outcome, cleanup_log, cleanups, warnings, polled,
                 raw_alerts>>

wait_for_spider ==
  /\ WaitStep("wait_for_spider", SpiderStatusEndpoint, SpiderTimeout,
              "spider_sleep", "spider_done")
  /\ UNCHANGED <<removed_old, ready, fleet, bench, wire, cfg, scanner, container, zap_url, scan_results, elapsed,
                 runtime, outcome, cleanup_log, cleanups, warnings, raw_alerts>>

spider_sleep ==
  /\ SleepStep("spider_sleep", SpiderInterval, SpiderTimeout, "wait_for_spider")
  /\ UNCHANGED <<removed_old, ready, fleet, bench, wire, polls, cfg, scanner, container, zap_url, scan_results, exc, success,
                 runtime, outcome, phase, cleanup_log, cleanups, warnings,
                 raw_alerts>>

\* A _run_spider_scan that raises when wait_for_spider returned False.
spider_done_raising ==
  /\ pc = "spider_done"
  /\ Request("none")
  /\ IF success
     THEN /\ scan_results' = Update(scan_results, [spider_scan_id |-> "scan"])
          /\ Mark("Spider", "completed")
          /\ pc' = "ajax_spider"
          /\ UNCHANGED exc
     ELSE /\ Raise("TimeoutError")
          /\ Mark("Spider", "raised")
          /\ UNCHANGED scan_results
  /\ success' = FALSE
  /\ polled' = -1
  /\ elapsed' = 0
  /\ UNCHANGED <<removed_old, ready, fleet, bench, wire, polls, cfg, scanner, container, zap_url, runtime, outcome,
                 cleanup_log, cleanups, warnings, raw_alerts>>

\* _run_spider_scan, lines 176-179: the warning when wait_for_spider
\* returned False, and the scan id
spider_done ==
  /\ pc = "spider_done"
  /\ Request("none")
  /\ warnings' = IF success THEN warnings
                 ELSE warnings \cup {"Spider scan did not complete within timeout"}
  /\ scan_results' = Update(scan_results, [spider_scan_id |-> "scan"])
  /\ Mark("Spider", IF success THEN "completed" ELSE "timed_out")
  /\ pc' = "ajax_spider"
  /\ success' = FALSE
  /\ polled' = -1
  /\ elapsed' = 0
  /\ UNCHANGED <<removed_old, ready, fleet, bench, wire, polls, cfg, scanner, container, zap_url, exc, runtime, outcome,
                 cleanup_log, cleanups, raw_alerts>>

\* An AjaxSpider gate that goes straight to the ActiveScan gate when
\* AjaxSpider is disabled.
ajax_spider_gate_past_passive ==
  /\ pc = "ajax_spider"
  /\ Request("none")
  /\ IF enabled(cfg.ajax_spider, FALSE)
     THEN pc' = "ajax_max_duration" /\ Mark("AjaxSpider", "started")
     ELSE pc' = "active_scan" /\ Mark("AjaxSpider", "skipped")
  /\ UNCHANGED <<removed_old, ready, fleet, bench, wire, polls, cfg, scanner, container, zap_url, scan_results, exc, elapsed,
                 success, runtime, outcome, cleanup_log, cleanups, warnings,
                 polled, raw_alerts>>

\* execute_scan, lines 87-92
ajax_spider_gate ==
  /\ pc = "ajax_spider"
  /\ Request("none")
  /\ IF enabled(cfg.ajax_spider, FALSE)
     THEN pc' = "ajax_max_duration" /\ Mark("AjaxSpider", "started")
     ELSE pc' = "passive" /\ Mark("AjaxSpider", "skipped")
  /\ UNCHANGED <<removed_old, ready, fleet, bench, wire, polls, cfg, scanner, container, zap_url, scan_results, exc, elapsed,
                 success, runtime, outcome, cleanup_log, cleanups, warnings,
                 polled, raw_alerts>>

\* ajax_spider_scan: the option call and the start call
ajax_spider_scan ==
  /\ \/ ApiStep("ajax_max_duration", AjaxMaxDurationEndpoint, "ajax_start")
     \/ ApiStep("ajax_start", AjaxScanEndpoint, "ajax_done")
  /\ UNCHANGED <<removed_old, ready, fleet, bench, wire, polls, cfg, scanner, container, zap_url, scan_results, elapsed,
                 success, runtime, outcome, cleanup_log, cleanups, warnings,
                 polled, raw_alerts>>

\* _run_ajax_spider_scan, line 196: the result is logged
ajax_done ==
  /\ pc = "ajax_done"
  /\ Request("none")
  /\ Mark("AjaxSpider", "completed")
  /\ pc' = "passive"
  /\ UNCHANGED <<removed_old, ready, fleet, bench, wire, polls, cfg, scanner, container, zap_url, scan_results, exc, elapsed,
                 success, runtime, outcome, cleanup_log, cleanups, warnings,
                 polled, raw_alerts>>

\* _wait_for_passive_scan, lines 205-206: the loop's clock starts
passive_begin ==
  /\ pc = "passive"
  /\ Request("none")
  /\ elapsed' = 0
  /\ Mark("PassiveWait", "started")
  /\ pc' = "wait_for_passive"
  /\ UNCHANGED <<removed_old, ready, fleet, bench, wire, polls, cfg, scanner, container, zap_url, scan_results, exc, success,
                 runtime, outcome, cleanup_log, cleanups, warnings, polled,
                 raw_alerts>>

\* A get_scan_progress whose except clause reports the scan complete.
get_scan_progress_error_is_complete(o, response) ==
  LET records == Get(response, "recordsToScan", "0") IN
  IF o = "ok" /\ records \in ReplyNumerals
  THEN [records_to_scan |-> int_of(records),
        passive_scan_complete |-> (int_of(records) = 0)]
  ELSE [records_to_scan |-> 0, passive_scan_complete |-> TRUE]

\* A get_scan_progress that compares the reply's text with the number 0,
\* which is never equal.
get_scan_progress_comparing_text(o, response) ==
  LET records == Get(response, "recordsToScan", "0") IN
  IF o = "ok" /\ records \in ReplyNumerals
  THEN [records_to_scan |-> int_of(records), passive_scan_complete |-> FALSE]
  ELSE [records_to_scan |-> 0, passive_scan_complete |-> FALSE]

\* get_scan_progress: the records still to scan and whether there are none;
\* any error of the call or of int() gives 0 records and not complete.
get_scan_progress(o, response) ==
  LET records == Get(response, "recordsToScan", "0") IN
  IF o = "ok" /\ records \in ReplyNumerals
  THEN [records_to_scan |-> int_of(records),
        passive_scan_complete |-> (int_of(records) = 0)]
  ELSE [records_to_scan |-> 0, passive_scan_complete |-> FALSE]

\* The count a records poll returned, -1 when the poll gave none (the call
\* or int() raised inside get_scan_progress).
records_polled(o, response) ==
  IF o = "ok" /\ Get(response, "recordsToScan", "0") \in ReplyNumerals
  THEN int_of(Get(response, "recordsToScan", "0")) ELSE -1

\* _wait_for_passive_scan: one turn of the loop up to the sleep, or the
\* warning after the deadline.
_wait_for_passive_scan ==
  /\ pc = "wait_for_passive"
  /\ polls' = IF elapsed < PassiveTimeout
              THEN [polls EXCEPT !["PassiveWait"] = @ + 1] ELSE polls
  /\ IF elapsed < PassiveTimeout
     THEN \E o \in api_outcomes(zap_url), response \in RecordsReplies :
            LET progress == get_scan_progress(o, response) IN
            /\ Request(requested(RecordsEndpoint, o))
            /\ polled' = records_polled(o, response)
            /\ IF progress.passive_scan_complete
               THEN pc' = "active_scan" /\ Mark("PassiveWait", "completed")
               ELSE pc' = "passive_sleep" /\ UNCHANGED phase
            /\ UNCHANGED warnings
     ELSE /\ Request("none")
          /\ warnings' = warnings \cup {"Passive scan timeout reached"}
          /\ Mark("PassiveWait", "timed_out")
          /\ pc' = "active_scan"
          /\ UNCHANGED polled
  /\ UNCHANGED <<removed_old, ready, fleet, bench, wire, cfg, scanner, container, zap_url, scan_results, exc, elapsed,
                 success, runtime, outcome, cleanup_log, cleanups, raw_alerts>>

passive_sleep ==
  /\ SleepStep("passive_sleep", PassiveInterval, PassiveTimeout, "wait_for_passive")
  /\ UNCHANGED <<removed_old, ready, fleet, bench, wire, polls, cfg, scanner, container, zap_url, scan_results, exc, success,
                 runtime, outcome, phase, cleanup_log, cleanups, warnings,
                 raw_alerts>>


\* execute_scan, lines 98-103
active_scan_gate ==
  /\ pc = "active_scan"
  /\ Request("none")
  /\ polled' = -1
  /\ elapsed' = 0
  /\ IF enabled(cfg.active_scan, TRUE)
     THEN pc' = "active_start" /\ Mark("ActiveScan", "started")
     ELSE pc' = "collect" /\ Mark("ActiveScan", "skipped")
  /\ UNCHANGED <<removed_old, ready, fleet, bench, wire, polls, cfg, scanner, container, zap_url, scan_results, exc, success,
                 runtime, outcome, cleanup_log, cleanups, warnings, raw_alerts>>

\* active_scan: the start call; wait_for_active_scan then starts its clock
active_scan ==
  /\ ApiStep("active_start", ActiveScanEndpoint, "wait_for_active")
  /\ elapsed' = 0
  /\ UNCHANGED <<removed_old, ready, fleet, bench, wire, polls, cfg, scanner, container, zap_url, scan_results, success,
                 runtime, outcome, cleanup_log, cleanups, warnings, polled,
                 raw_alerts>>

wait_for_active_scan ==
  /\ WaitStep("wait_for_active", ActiveStatusEndpoint, active_timeout(cfg),
              "active_sleep", "active_done")
  /\ UNCHANGED <<removed_old, ready, fleet, bench, wire, cfg, scanner, container, zap_url, scan_results, elapsed,
                 runtime, outcome, cleanup_log, cleanups, warnings, raw_alerts>>

active_sleep ==
  /\ SleepStep("active_sleep", ActiveInterval, active_timeout(cfg), "wait_for_active")
  /\ UNCHANGED <<removed_old, ready, fleet, bench, wire, polls, cfg, scanner, container, zap_url, scan_results, exc, success,
                 runtime, outcome, phase, cleanup_log, cleanups, warnings,
                 raw_alerts>>

\* A _run_active_scan that raises when wait_for_active_scan returned False.
active_done_raising ==
  /\ pc = "active_done"
  /\ Request("none")
  /\ IF success
     THEN /\ scan_results' = Update(scan_results, [active_scan_id |-> "scan"])
          /\ Mark("ActiveScan", "completed")
          /\ pc' = "collect"
          /\ UNCHANGED exc
     ELSE /\ Raise("TimeoutError")
          /\ Mark("ActiveScan", "raised")
          /\ UNCHANGED scan_results
  /\ success' = FALSE
  /\ polled' = -1
  /\ elapsed' = 0
  /\ UNCHANGED <<removed_old, ready, fleet, bench, wire, polls, cfg, scanner, container, zap_url, runtime, outcome,
                 cleanup_log, cleanups, warnings, raw_alerts>>

\* _run_active_scan, lines 238-241: the warning when wait_for_active_scan
\* returned False, and the scan id
active_done ==
  /\ pc = "active_done"
  /\ Request("none")
  /\ warnings' = IF success THEN warnings
                 ELSE warnings \cup {"Active scan did not complete within timeout"}
  /\ scan_results' = Update(scan_results, [active_scan_id |-> "scan"])
  /\ Mark("ActiveScan", IF success THEN "completed" ELSE "timed_out")
  /\ pc' = "collect"
  /\ success' = FALSE
  /\ polled' = -1
  /\ elapsed' = 0
  /\ UNCHANGED <<removed_old, ready, fleet, bench, wire, polls, cfg, scanner, container, zap_url, exc, runtime, outcome,
                 cleanup_log, cleanups, raw_alerts>>

\* A Collect whose statistics only count the raw alerts.
collect_counting_raw ==
  /\ pc = "collect"
  /\ \E o \in api_outcomes(zap_url) :
       /\ Request(requested(AlertsEndpoint, o))
       /\ IF o = "ok"
          THEN \E fetched \in FetchedAlerts :
                 /\ raw_alerts' = fetched
                 /\ scan_results' = Update(scan_results,
                        [completed_at |-> "end_time", duration |-> "duration",
                         status |-> "completed",
                         vulnerabilities |-> parse_alerts(fetched).vulnerabilities,
                         statistics |-> Update(ZeroStatistics,
                                               "total" :> Len(fetched))])
                 /\ Mark("Collect", "completed")
                 /\ pc' = "finally"
                 /\ UNCHANGED exc
          ELSE /\ Raise(api_error(o))
               /\ Mark("Collect", "raised")
               /\ UNCHANGED <<scan_results, raw_alerts>>
  /\ UNCHANGED <<removed_old, ready, fleet, bench, wire, polls, cfg, scanner, container, zap_url,
                 elapsed, success, runtime, outcome, cleanup_log, cleanups,
                 warnings, polled>>

\* execute_scan, lines 105-128: get_alerts, parse_alerts, the record is
\* completed in one update and returned.
collect ==
  /\ pc = "collect"
  /\ \E o \in api_outcomes(zap_url) :
       /\ Request(requested(AlertsEndpoint, o))
       /\ IF o = "ok"
          THEN \E fetched \in FetchedAlerts :
                 LET parsed_results == parse_alerts(fetched) IN
                 /\ raw_alerts' = fetched
                 /\ scan_results' = Update(scan_results,
                        [completed_at |-> "end_time", duration |-> "duration",
                         status |-> "completed",
                         vulnerabilities |-> parsed_results.vulnerabilities,
                         statistics |-> parsed_results.statistics])
                 /\ Mark("Collect", "completed")
                 /\ pc' = "finally"
                 /\ UNCHANGED exc
          ELSE /\ Raise(api_error(o))
               /\ Mark("Collect", "raised")
               /\ UNCHANGED <<scan_results, raw_alerts>>
  /\ UNCHANGED <<removed_old, ready, fleet, bench, wire, polls, cfg, scanner, container, zap_url, elapsed, success, runtime,
                 outcome, cleanup_log, cleanups, warnings, polled>>

\* An except clause that leaves without the finally clause.
except_clause_without_finally ==
  /\ pc = "except"
  /\ Request("none")
  /\ scan_results' = Update(scan_results, [status |-> "failed", error |-> exc])
  /\ pc' = "exit"
  /\ elapsed' = 0
  /\ polled' = -1
  /\ removed_old' = FALSE
  /\ UNCHANGED <<ready, fleet, bench, wire, polls, cfg, scanner, container, zap_url, exc, success, runtime,
                 outcome, phase, cleanup_log, cleanups, warnings, raw_alerts>>

\* execute_scan, lines 130-134: the except clause; the exception is raised
\* again after the finally clause.
except_clause ==
  /\ pc = "except"
  /\ Request("none")
  /\ scan_results' = Update(scan_results, [status |-> "failed", error |-> exc])
  /\ pc' = "finally"
  /\ elapsed' = 0
  /\ polled' = -1
  /\ polls' = NoPolls
  /\ removed_old' = FALSE
  /\ UNCHANGED <<ready, fleet, bench, wire, cfg, scanner, container, zap_url, exc, success, runtime,
                 outcome, phase, cleanup_log, cleanups, warnings, raw_alerts>>

\* A _cleanup that stops the scanner only after a run that did not fail.
_cleanup_after_success_only ==
  /\ pc = "finally"
  /\ Request("none")
  /\ cleanups' = cleanups + 1
  /\ pc' = IF scanner /\ exc = "none" THEN "save_logs" ELSE "exit"
  /\ polls' = NoPolls
  /\ UNCHANGED <<removed_old, ready, fleet, bench, wire, cfg, scanner, container, zap_url, scan_results, exc, elapsed,
                 success, runtime, outcome, phase, cleanup_log, warnings,
                 polled, raw_alerts>>

\* The finally clause: _cleanup is invoked; without a scanner it only logs.
_cleanup ==
  /\ pc = "finally"
  /\ Request("none")
  /\ cleanups' = cleanups + 1
  /\ pc' = IF scanner THEN "save_logs" ELSE "exit"
  /\ polls' = NoPolls
  /\ UNCHANGED <<removed_old, ready, fleet, bench, wire, cfg, scanner, container, zap_url, scan_results, exc, elapsed,
                 success, runtime, outcome, phase, cleanup_log, warnings,
                 polled, raw_alerts>>

\* A _cleanup whose log step is outside any try block: its error leaves
\* _cleanup and replaces whatever execute_scan was about to return or raise.
save_logs_unguarded ==
  /\ pc = "save_logs"
  /\ Request("none")
  /\ \E step \in {"logs", "logs_error"} :
       /\ cleanup_log' = Append(cleanup_log, step)
       /\ exc' = IF step = "logs" THEN exc ELSE "OSError"
       /\ pc' = IF step = "logs" THEN "shutdown" ELSE "exit"
  /\ UNCHANGED <<removed_old, ready, fleet, bench, wire, polls, cfg, scanner, container, zap_url, scan_results, elapsed,
                 success, runtime, outcome, phase, cleanups, warnings, polled,
                 raw_alerts>>

\* _cleanup, lines 248-256: get_container_logs and the log file; a failure
\* of either is logged.
save_logs ==
  /\ pc = "save_logs"
  /\ Request("none")
  /\ \E step \in {"logs", "logs_error"} : cleanup_log' = Append(cleanup_log, step)
  /\ pc' = "shutdown"
  /\ UNCHANGED <<removed_old, ready, fleet, bench, wire, polls, cfg, scanner, container, zap_url, scan_results, exc, elapsed,
                 success, runtime, outcome, phase, cleanups, warnings, polled,
                 raw_alerts>>

\* A shutdown without its try block: the error of the call leaves it and is
\* caught by _cleanup, which has then passed over stop_container.
shutdown_raising ==
  /\ pc = "shutdown"
  /\ \E o \in api_outcomes(zap_url) :
       /\ Request(requested(ShutdownEndpoint, o))
       /\ cleanup_log' = Append(cleanup_log,
                                IF o = "ok" THEN "shutdown" ELSE "shutdown_error")
       /\ pc' = IF o = "ok" THEN "stop_container" ELSE "exit"
  /\ UNCHANGED <<removed_old, ready, fleet, bench, wire, polls, cfg, scanner, container, zap_url, scan_results, exc, elapsed,
                 success, runtime, outcome, phase, cleanups, warnings, polled,
                 raw_alerts>>

\* shutdown: the shutdown call and a sleep; an error is logged as a warning.
shutdown ==
  /\ pc = "shutdown"
  /\ \E o \in api_outcomes(zap_url) :
       /\ Request(requested(ShutdownEndpoint, o))
       /\ cleanup_log' = Append(cleanup_log,
                                IF o = "ok" THEN "shutdown" ELSE "shutdown_error")
  /\ pc' = "stop_container"
  /\ UNCHANGED <<removed_old, ready, fleet, bench, wire, polls, cfg, scanner, container, zap_url, scan_results, exc, elapsed,
                 success, runtime, outcome, phase, cleanups, warnings, polled,
                 raw_alerts>>

\* A stop_container that raises when the forced removal fails: _cleanup
\* catches the error, and the handle and the endpoint stay as they were.
stop_container_raising ==
  /\ pc = "stop_container"
  /\ Request("none")
  /\ IF container # "None"
     THEN \E removed \in BOOLEAN, forced \in BOOLEAN :
            /\ runtime' = IF removed \/ forced THEN "absent" ELSE runtime
            /\ cleanup_log' = Append(cleanup_log,
                 IF removed THEN "stop"
                 ELSE IF forced THEN "stop_forced" ELSE "stop_error")
            /\ container' = IF removed \/ forced THEN "None" ELSE container
            /\ zap_url' = IF removed \/ forced THEN "None" ELSE zap_url
     ELSE /\ cleanup_log' = Append(cleanup_log, "stop_nothing")
          /\ container' = "None"
          /\ zap_url' = "None"
          /\ UNCHANGED runtime
  /\ pc' = "exit"
  /\ UNCHANGED <<removed_old, ready, fleet, bench, wire, polls, cfg, scanner, scan_results, exc, elapsed, success, outcome,
                 phase, cleanups, warnings, polled, raw_alerts>>

\* stop_container: stop and remove; if either fails, one forced removal
\* whose failure is passed over.  The handle and the endpoint are dropped.
stop_container ==
  /\ pc = "stop_container"
  /\ Request("none")
  /\ IF container # "None"
     THEN \E removed \in BOOLEAN, forced \in BOOLEAN :
            /\ runtime' = IF removed \/ forced THEN "absent" ELSE runtime
            /\ cleanup_log' = Append(cleanup_log,
                 IF removed THEN "stop"
                 ELSE IF forced THEN "stop_forced" ELSE "stop_error")
     ELSE /\ cleanup_log' = Append(cleanup_log, "stop_nothing")
          /\ UNCHANGED runtime
  /\ container' = "None"
  /\ zap_url' = "None"
  /\ pc' = "exit"
  /\ UNCHANGED <<removed_old, ready, fleet, bench, wire, polls, cfg, scanner, scan_results, exc, elapsed, success, outcome,
                 phase, cleanups, warnings, polled, raw_alerts>>

\* An execute_scan that returns the record after a failure instead of
\* raising.
leave_returning ==
  /\ pc = "exit"
  /\ Request("none")
  /\ outcome' = "returned"
  /\ pc' = "done"
  /\ UNCHANGED <<removed_old, ready, fleet, bench, wire, polls, cfg, scanner, container, zap_url, scan_results, exc, elapsed,
                 success, runtime, phase, cleanup_log, cleanups, warnings,
                 polled, raw_alerts>>

\* execute_scan leaves: it returns self.scan_results, or the exception
\* caught by the except clause is raised to the caller.
leave ==
  /\ pc = "exit"
  /\ Request("none")
  /\ outcome' = IF exc = "none" THEN "returned" ELSE "raised"
  /\ pc' = "done"
  /\ UNCHANGED <<removed_old, ready, fleet, bench, wire, polls, cfg, scanner, container, zap_url, scan_results, exc, elapsed,
                 success, runtime, phase, cleanup_log, cleanups, warnings,
                 polled, raw_alerts>>

Next ==
  \/ execute_scan
  \/ _initialize_scanner
  \/ start_container_remove_old
  \/ start_container_run
  \/ _wait_for_zap
  \/ zap_sleep
  \/ read_target
  \/ spider_gate
  \/ spider_scan
  \/ wait_for_spider
  \/ spider_sleep
  \/ spider_done
  \/ ajax_spider_gate
  \/ ajax_spider_scan
  \/ ajax_done
  \/ passive_begin
  \/ _wait_for_passive_scan
  \/ passive_sleep
  \/ active_scan_gate
  \/ active_scan
  \/ wait_for_active_scan
  \/ active_sleep
  \/ active_done
  \/ collect
  \/ except_clause
  \/ _cleanup
  \/ save_logs
  \/ shutdown
  \/ stop_container
  \/ leave

Spec == Init /\ [][Next]_vars

\* A step of execute_scan between its entry and its exit.
Running == Next /\ pc \notin {"idle", "done"}

\* execute_scan is sequential code: once entered, and as long as every call
\* it makes returns or raises, its next step is taken.  Whether it is
\* entered, and entered again, is up to the caller.
SpecLive == Init /\ [][Next]_vars /\ WF_vars(Running)

\* ------------------------------------------------------------ cancellation

\* The positions inside the three poll loops.
PollLoops ==
  {"wait_for_spider", "spider_sleep", "wait_for_passive", "passive_sleep",
   "wait_for_active", "active_sleep"}

\* An interrupt that ends the process at once: no finally clause runs.
interrupt_killing ==
  /\ pc \in PollLoops
  /\ Request("none")
  /\ exc' = "KeyboardInterrupt"
  /\ pc' = "exit"
  /\ elapsed' = 0
  /\ polled' = -1
  /\ success' = FALSE
  /\ UNCHANGED <<removed_old, ready, fleet, bench, wire, polls, cfg, scanner, container, zap_url, scan_results, runtime,
                 outcome, phase, cleanup_log, cleanups, warnings, raw_alerts>>

\* The caller is interrupted while execute_scan is inside a poll loop:
\* KeyboardInterrupt is raised there.  It is no Exception, so neither
\* get_scan_progress nor the except clause of execute_scan catches it; the
\* finally clause runs and the interrupt goes on to the caller.
interrupt ==
  /\ pc \in PollLoops
  /\ Request("none")
  /\ exc' = "KeyboardInterrupt"
  /\ pc' = "finally"
  /\ elapsed' = 0
  /\ polled' = -1
  /\ success' = FALSE
  /\ polls' = NoPolls
  /\ UNCHANGED <<removed_old, ready, fleet, bench, wire, cfg, scanner, container, zap_url, scan_results, runtime,
                 outcome, phase, cleanup_log, cleanups, warnings, raw_alerts>>

NextCancel ==
  \/ Next
  \/ interrupt

SpecCancel == Init /\ [][NextCancel]_vars

\* ------------------------------------------------------------ concurrent jobs

\* The single executor of the specifications above stands still here.
executor_idle ==
  /\ cfg = [url |-> TRUE, spider |-> "unset", ajax_spider |-> "unset",
            active_scan |-> "unset", timeout |-> <<>>]
  /\ pc = "idle"
  /\ scanner = FALSE
  /\ container = "None"
  /\ zap_url = "None"
  /\ scan_results = EmptyDict
  /\ exc = "none"
  /\ elapsed = 0
  /\ success = FALSE
  /\ runtime = "absent"
  /\ outcome = "none"
  /\ call = "none"
  /\ phase = NoPhase
  /\ cleanup_log = <<>>
  /\ cleanups = 0
  /\ warnings = {}
  /\ polled = -1
  /\ raw_alerts = <<>>
  /\ called = {}
  /\ polls = NoPolls
  /\ removed_old = FALSE
  /\ ready = FALSE

executor_vars ==
  <<cfg, pc, scanner, container, zap_url, scan_results, exc, elapsed, success,
    runtime, outcome, call, phase, cleanup_log, cleanups, warnings, polled,
    raw_alerts, called, polls, removed_old, ready>>

\* A container name that leaves the scan id out.
container_name_shared(scan_id) == <<"amtd-zap", "zap">>

\* start_container, line 62: f"amtd-zap-{scan_id}"
container_name(scan_id) == <<"amtd-zap", scan_id>>

\* The executors have distinct uuids; containers of their names may be left
\* over from earlier processes.
InitFleet ==
  /\ executor_idle
  /\ bench_idle
  /\ wire_idle
  /\ \E a, b \in 1..Len(ScanIds) :
       /\ a # b
       /\ jobs = [j \in Jobs |-> NewExecutor(ScanIds[IF j = 1 THEN a ELSE b])]
  /\ docker \in SUBSET {container_name(jobs[j].scan_id) : j \in Jobs}
  /\ touched = [j \in Jobs |-> {}]

\* Job j takes a step to the state next, having operated on the containers
\* named in names; no other job's state is written.
JobStep(j, next, names) ==
  /\ jobs' = [jobs EXCEPT ![j] = next]
  /\ touched' = [touched EXCEPT ![j] = @ \cup names]
  /\ UNCHANGED <<executor_vars, bench, wire>>

\* execute_scan is entered and _initialize_scanner builds the ZAPScanner,
\* whose docker.from_env() may raise.
job_initialize(j) ==
  /\ jobs[j].pc \in {"idle", "done"}
  /\ \/ JobStep(j, [jobs[j] EXCEPT !.pc = "remove_old", !.scanner = TRUE,
                                   !.container = NoName, !.zap_url = NoName], {})
     \/ JobStep(j, [jobs[j] EXCEPT !.pc = "except"], {})
  /\ UNCHANGED docker

\* start_container, lines 66-73: the container of this job's name is removed
\* by force when there is one.
job_remove_old(j) ==
  LET name == container_name(jobs[j].scan_id) IN
  /\ jobs[j].pc = "remove_old"
  /\ \/ /\ JobStep(j, [jobs[j] EXCEPT !.pc = "run"], {name})
        /\ docker' = docker \ {name}
     \/ /\ JobStep(j, [jobs[j] EXCEPT !.pc = "except"], {name})
        /\ UNCHANGED docker

\* start_container, lines 75-92: containers.run under this job's name, which
\* the daemon refuses when the name is taken; zap_url names the same host.
job_run(j) ==
  LET name == container_name(jobs[j].scan_id) IN
  /\ jobs[j].pc = "run"
  /\ \/ /\ name \notin docker
        /\ JobStep(j, [jobs[j] EXCEPT !.pc = "scanning", !.container = name,
                                      !.zap_url = name], {name})
        /\ docker' = docker \cup {name}
     \/ /\ JobStep(j, [jobs[j] EXCEPT !.pc = "except"], {name})
        /\ UNCHANGED docker

\* The readiness probe, the phases and the record of the completed run: all
\* requests go to zap_url, and succeed only while that container is there.
job_scan(j) ==
  /\ jobs[j].pc = "scanning"
  /\ \/ /\ jobs[j].zap_url \in docker
        /\ JobStep(j, [jobs[j] EXCEPT !.pc = "save_logs", !.status = "completed"],
                   {jobs[j].zap_url})
     \/ JobStep(j, [jobs[j] EXCEPT !.pc = "except"], {jobs[j].zap_url})
  /\ UNCHANGED docker

\* execute_scan, lines 130-134, and the finally clause
job_except(j) ==
  /\ jobs[j].pc = "except"
  /\ JobStep(j, [jobs[j] EXCEPT !.status = "failed",
                   !.pc = IF jobs[j].scanner THEN "save_logs" ELSE "done"], {})
  /\ UNCHANGED docker

\* _cleanup, lines 248-256: the logs of this job's container handle
job_save_logs(j) ==
  /\ jobs[j].pc = "save_logs"
  /\ JobStep(j, [jobs[j] EXCEPT !.pc = "shutdown"], {jobs[j].container} \ {NoName})
  /\ UNCHANGED docker

\* shutdown: the request goes to this job's zap_url when it has one
job_shutdown(j) ==
  /\ jobs[j].pc = "shutdown"
  /\ JobStep(j, [jobs[j] EXCEPT !.pc = "stop_container"], {jobs[j].zap_url} \ {NoName})
  /\ UNCHANGED docker

\* stop_container: this job's handle is stopped and removed, or the removal
\* fails; the handle and the endpoint are dropped.
job_stop_container(j) ==
  /\ jobs[j].pc = "stop_container"
  /\ JobStep(j, [jobs[j] EXCEPT !.pc = "done", !.container = NoName,
                                !.zap_url = NoName],
             {jobs[j].container} \ {NoName})
  /\ \/ docker' = docker \ {jobs[j].container}
     \/ UNCHANGED docker

NextFleet ==
  \/ \E j \in Jobs : job_initialize(j)
  \/ \E j \in Jobs : job_remove_old(j)
  \/ \E j \in Jobs : job_run(j)
  \/ \E j \in Jobs : job_scan(j)
  \/ \E j \in Jobs : job_except(j)
  \/ \E j \in Jobs : job_save_logs(j)
  \/ \E j \in Jobs : job_shutdown(j)
  \/ \E j \in Jobs : job_stop_container(j)

SpecFleet == InitFleet /\ [][NextFleet]_vars

\* ------------------------------------------------------------ the parser alone

\* The longest alert list handed to the parser: long enough for a repeated
\* key with another key in between.
MaxAlerts == 3

\* The risk codes of the records: the known ones as texts and as ints, a
\* number out of range, a word, and none.
RiskCodes == {"0", "1", "2", "3", "4", "9", "i1", "i4", "High", Missing}

ConfidenceCodes == {"0", "1", "2", "3", "4", "9", "i3", "Medium", Missing}

Field(k, v) == IF v = Missing THEN EmptyDict ELSE k :> v

\* An engine record with the given codes at the given URL.
Alert(risk, confidence, url) ==
  Field("risk", risk) @@ Field("confidence", confidence)
  @@ ("alert" :> "XSS") @@ ("url" :> url)

AlertPool ==
  {Alert(risk, "2", "/a") : risk \in RiskCodes}
  \cup {Alert("2", confidence, "/a") : confidence \in ConfidenceCodes}
  \cup {Alert("3", "3", "/b")}

AlertLists == UNION {[1..n -> AlertPool] : n \in 0..MaxAlerts}

\* deduplicate's key of a finding
dedup_key(vuln) ==
  <<Get(vuln, "type", ""), Get(vuln, "url", ""), Get(vuln, "parameter", "")>>

\* A loop that keeps the last finding of a key in the place of the first.
RECURSIVE deduplicate_from_keeping_last(_, _, _, _)
deduplicate_from_keeping_last(vulnerabilities, i, seen, kept) ==
  IF i > Len(vulnerabilities)
  THEN kept
  ELSE LET key == dedup_key(vulnerabilities[i]) IN
       IF key \notin seen
       THEN deduplicate_from_keeping_last(vulnerabilities, i + 1, seen \cup {key},
                                          Append(kept, vulnerabilities[i]))
       ELSE deduplicate_from_keeping_last(vulnerabilities, i + 1, seen,
              [k \in 1..Len(kept) |->
                 IF dedup_key(kept[k]) = key THEN vulnerabilities[i] ELSE kept[k]])

\* The loop of deduplicate from finding i on.
RECURSIVE deduplicate_from(_, _, _, _)
deduplicate_from(vulnerabilities, i, seen, kept) ==
  IF i > Len(vulnerabilities)
  THEN kept
  ELSE LET key == dedup_key(vulnerabilities[i]) IN
       IF key \notin seen
       THEN deduplicate_from(vulnerabilities, i + 1, seen \cup {key},
                             Append(kept, vulnerabilities[i]))
       ELSE deduplicate_from(vulnerabilities, i + 1, seen, kept)

\* A deduplicate whose loop starts at the second finding.
deduplicate_from_second(vulnerabilities) ==
  deduplicate_from(vulnerabilities, 2, {}, <<>>)

deduplicate(vulnerabilities) == deduplicate_from(vulnerabilities, 1, {}, <<>>)

\* filter_by_confidence, line 266
confidence_order == <<"low", "medium", "high", "confirmed">>

\* The values of min_confidence: the default 'medium', the other tiers, and
\* two names that are none of them.
MinConfidences ==
  {"low", "medium", "high", "confirmed", "false_positive", "Medium"}

\* seq.index(x) counted from 1
index(seq, x) == CHOOSE i \in 1..Len(seq) : seq[i] = x /\ \A j \in 1..(i - 1) : seq[j] # x

\* A filter that takes a finding without a confidence for a false positive.
filter_by_confidence_without_default(vulnerabilities, minimum) ==
  IF \A i \in 1..Len(confidence_order) : confidence_order[i] # minimum
  THEN vulnerabilities
  ELSE LET min_index == index(confidence_order, minimum)
           tiers == {confidence_order[i] : i \in min_index..Len(confidence_order)}
           at_least(vuln) == Get(vuln, "confidence", "false_positive") \in tiers
       IN SelectSeq(vulnerabilities, at_least)

\* A filter whose slice starts one tier above min_confidence.
filter_by_confidence_from_next_tier(vulnerabilities, minimum) ==
  IF \A i \in 1..Len(confidence_order) : confidence_order[i] # minimum
  THEN vulnerabilities
  ELSE LET min_index == index(confidence_order, minimum)
           tiers == {confidence_order[i] : i \in (min_index + 1)..Len(confidence_order)}
           at_least(vuln) == Get(vuln, "confidence", "low") \in tiers
       IN SelectSeq(vulnerabilities, at_least)

\* filter_by_confidence: the findings whose confidence is in
\* confidence_order[min_index:], all of them when min_confidence is no tier.
filter_by_confidence(vulnerabilities, minimum) ==
  IF \A i \in 1..Len(confidence_order) : confidence_order[i] # minimum
  THEN vulnerabilities
  ELSE LET min_index == index(confidence_order, minimum)
           tiers == {confidence_order[i] : i \in min_index..Len(confidence_order)}
           at_least(vuln) == Get(vuln, "confidence", "low") \in tiers
       IN SelectSeq(vulnerabilities, at_least)

InitParser ==
  /\ executor_idle
  /\ wire_idle
  /\ jobs = [j \in Jobs |-> NewExecutor(ScanIds[j])]
  /\ docker = {}
  /\ touched = [j \in Jobs |-> {}]
  /\ given \in AlertLists
  /\ parsed = [vulnerabilities |-> <<>>, statistics |-> ZeroStatistics]
  /\ unique = <<>>
  /\ stage = "input"
  /\ min_confidence = "medium"
  /\ filtered = <<>>

\* parser.parse_alerts(alerts)
apply_parse_alerts ==
  /\ stage = "input"
  /\ parsed' = parse_alerts(given)
  /\ stage' = "parsed"
  /\ UNCHANGED <<executor_vars, fleet, wire, given, unique, min_confidence, filtered>>

\* parser.deduplicate(vulnerabilities) on the findings parse_alerts returned
apply_deduplicate ==
  /\ stage = "parsed"
  /\ unique' = deduplicate(parsed.vulnerabilities)
  /\ stage' = "deduplicated"
  /\ UNCHANGED <<executor_vars, fleet, wire, given, parsed, min_confidence, filtered>>

\* parser.deduplicate on what deduplicate returned
apply_deduplicate_again ==
  /\ stage = "deduplicated"
  /\ unique' = deduplicate(unique)
  /\ stage' = "deduplicated_twice"
  /\ UNCHANGED <<executor_vars, fleet, wire, given, parsed, min_confidence, filtered>>

\* parser.filter_by_confidence(vulnerabilities, min_confidence) on the
\* findings parse_alerts returned
apply_filter_by_confidence ==
  /\ stage = "parsed"
  /\ \E minimum \in MinConfidences :
       /\ min_confidence' = minimum
       /\ filtered' = filter_by_confidence(parsed.vulnerabilities, minimum)
  /\ stage' = "filtered"
  /\ UNCHANGED <<executor_vars, fleet, wire, given, parsed, unique>>

\* parser.filter_by_confidence(records, min_confidence) on the records
\* parse_alerts was handed, not on its findings: a record may have no
\* 'confidence' key, or a value under it that is no name of CONFIDENCE_MAP.
apply_filter_by_confidence_to_given ==
  /\ stage = "parsed"
  /\ \E minimum \in MinConfidences :
       /\ min_confidence' = minimum
       /\ filtered' = filter_by_confidence(given, minimum)
  /\ stage' = "filtered_given"
  /\ UNCHANGED <<executor_vars, fleet, wire, given, parsed, unique>>

NextParser ==
  \/ apply_parse_alerts
  \/ apply_deduplicate
  \/ apply_deduplicate_again
  \/ apply_filter_by_confidence
  \/ apply_filter_by_confidence_to_given

SpecParser == InitParser /\ [][NextParser]_vars

\* ------------------------------------------------------------ the engine calls alone

HtmlReportEndpoint == "core/other/htmlreport/"

\* The endpoints with "/other/" in them: line 396.
OtherEndpoints == {HtmlReportEndpoint}

\* The endpoints of the scanner's methods that answer in JSON, the start of
\* the active scan apart.
JsonEndpoints ==
  {VersionEndpoint, SpiderMaxDepthEndpoint, SpiderMaxChildrenEndpoint,
   SpiderScanEndpoint, SpiderStatusEndpoint, AjaxMaxDurationEndpoint,
   AjaxScanEndpoint, RecordsEndpoint, ActiveStatusEndpoint, AlertsEndpoint,
   ShutdownEndpoint}

\* The status codes of the responses: success, client error, server error.
HttpStatuses == {200, 404, 500}

\* What requests.get does: it raises a RequestException (no connection, a
\* timeout), or returns a response with a status code.
Replies ==
  {[raised |-> TRUE, status_code |-> 0]}
  \cup {[raised |-> FALSE, status_code |-> c] : c \in HttpStatuses}

\* The policy names a job is configured with: none, or a name.
PolicyNames == {Missing, "quick"}

\* response.raise_for_status() raises on a 4xx or 5xx status.
raise_for_status(status_code) == status_code >= 400 /\ status_code < 600

\* An _api_call without the check of zap_url: requests.get is handed a URL
\* that begins with "None" and raises on it.
_api_call_unguarded(url, endpoint, reply) ==
  IF url = "None" \/ reply.raised
  THEN [kind |-> "raised", value |-> "RequestException"]
  ELSE IF endpoint \in OtherEndpoints
  THEN [kind |-> "returned", value |-> "response.text"]
  ELSE IF raise_for_status(reply.status_code)
  THEN [kind |-> "raised", value |-> "HTTPError"]
  ELSE [kind |-> "returned", value |-> "response.json()"]

\* _api_call: what it returns or raises for the endpoint, given zap_url and
\* what requests.get does.
_api_call(url, endpoint, reply) ==
  IF url = "None"
  THEN [kind |-> "raised", value |-> "ZAP container not started"]
  ELSE IF reply.raised
  THEN [kind |-> "raised", value |-> "RequestException"]
  ELSE IF endpoint \in OtherEndpoints
  THEN [kind |-> "returned", value |-> "response.text"]
  ELSE IF raise_for_status(reply.status_code)
  THEN [kind |-> "raised", value |-> "HTTPError"]
  ELSE [kind |-> "returned", value |-> "response.json()"]

\* ZAPScanner.active_scan, lines 205-207: the parameters of the start
\* request; policy is Missing for None.
active_scan_params(target_url, policy) ==
  (IF policy \in {Missing, ""} THEN EmptyDict ELSE "scanPolicyName" :> policy)
  @@ ("url" :> target_url) @@ ("recurse" :> "true")

\* The call _run_active_scan makes at line 229 for a job with the given
\* policy name: active_scan(target_url=target_url).
_run_active_scan_params(target_url, configured) ==
  active_scan_params(target_url, Missing)

InitApi ==
  /\ executor_idle
  /\ bench_idle
  /\ jobs = [j \in Jobs |-> NewExecutor(ScanIds[j])]
  /\ docker = {}
  /\ touched = [j \in Jobs |-> {}]
  /\ api_url \in {"None", "url"}
  /\ api_reply \in Replies
  /\ policy_name \in PolicyNames
  /\ sent = NoRequest
  /\ result = Pending

\* _api_call(endpoint, params): the key is added to the parameters and the
\* request is sent, unless there is no zap_url.
Send(endpoint, params) ==
  /\ sent' = IF api_url = "None" THEN NoRequest
             ELSE [endpoint |-> endpoint,
                   params |-> Update(params, "apikey" :> "key")]
  /\ result' = _api_call(api_url, endpoint, api_reply)
  /\ UNCHANGED <<executor_vars, fleet, bench, api_url, api_reply, policy_name>>

\* A method of the scanner that calls a JSON endpoint.
call_json == \E endpoint \in JsonEndpoints : Send(endpoint, EmptyDict)

\* generate_html_report, line 302
generate_html_report == Send(HtmlReportEndpoint, EmptyDict)

\* _run_active_scan, line 229, and active_scan, line 209
_run_active_scan_start ==
  Send(ActiveScanEndpoint, _run_active_scan_params("url", policy_name))

\* start_container, lines 75-92, on a scanner taken alone: the container
\* is run, zap_url is set and _wait_for_zap probes the engine with
\* requests.get, not through _api_call.
scanner_start_container ==
  /\ api_url' = "url"
  /\ sent' = [endpoint |-> VersionEndpoint, params |-> ("apikey" :> "key")]
  /\ result' = Pending
  /\ UNCHANGED <<executor_vars, fleet, bench, api_reply, policy_name>>

\* stop_container, lines 346-347, on a scanner taken alone: whatever became
\* of the container, zap_url is None from here on; no request is made.
scanner_stop_container ==
  /\ api_url' = "None"
  /\ sent' = NoRequest
  /\ result' = Pending
  /\ UNCHANGED <<executor_vars, fleet, bench, api_reply, policy_name>>

NextApi ==
  \/ call_json
  \/ generate_html_report
  \/ _run_active_scan_start
  \/ scanner_start_container
  \/ scanner_stop_container

SpecApi == InitApi /\ [][NextApi]_vars

\* ------------------------------------------------------------ claims

\* get_scan_results().get('status')
Status == Get(scan_results, "status", "absent")

\* The positions from the except clause to the exit.
FailurePath ==
  {"except", "finally", "save_logs", "shutdown", "stop_container", "exit", "done"}

\* A phase that has ended without raising.
Settled == {"skipped", "completed", "timed_out"}

PhaseIndex(p) == CHOOSE i \in 1..Len(Phases) : Phases[i] = p

PhaseEndpoints(p) ==
  {e \in {SpiderMaxDepthEndpoint, SpiderMaxChildrenEndpoint, SpiderScanEndpoint,
          SpiderStatusEndpoint, AjaxMaxDurationEndpoint, AjaxScanEndpoint,
          RecordsEndpoint, ActiveScanEndpoint, ActiveStatusEndpoint,
          AlertsEndpoint} : PhaseOf(e) = p}

AllPhaseEndpoints == UNION {PhaseEndpoints(p) : p \in PhaseSet}

SpiderWarning == "Spider scan did not complete within timeout"
ActiveWarning == "Active scan did not complete within timeout"

\* C1: every invocation of execute_scan invokes _cleanup exactly once before
\* it leaves, on every path; with a scanner, the cleanup takes each of its
\* three steps (logs, shutdown, stop) once, in that order.
C1_CleanupExactlyOnce ==
  /\ cleanups <= 1
  /\ (pc \in {"save_logs", "shutdown", "stop_container", "exit", "done"}
        => cleanups = 1)
  /\ (pc \notin {"save_logs", "shutdown", "stop_container", "exit", "done"}
        => cleanups = 0 /\ cleanup_log = <<>>)
  /\ (pc \in {"exit", "done"} /\ scanner =>
        /\ Len(cleanup_log) = 3
        /\ cleanup_log[1] \in {"logs", "logs_error"}
        /\ cleanup_log[2] \in {"shutdown", "shutdown_error"}
        /\ cleanup_log[3] \in {"stop", "stop_forced", "stop_error", "stop_nothing"})

\* A run that failed at the container start has left after one cleanup.
C1_Witness ==
  /\ pc = "done"
  /\ outcome = "raised"
  /\ exc = "DockerException"
  /\ scanner
  /\ cleanups = 1
  /\ Len(cleanup_log) = 3

\* C2: an exception raised by any step of execute_scan marks the record
\* failed with the exception's text, and no call of a later phase is made
\* in that run.
C2_FailureShortCircuits ==
  /\ (exc # "none" => pc \in FailurePath)
  /\ (exc # "none" /\ pc # "except" =>
        /\ Status = "failed"
        /\ Get(scan_results, "error", "absent") = exc
        /\ PhaseOf(call) = "none")
  /\ \A p \in PhaseSet :
       phase[p] = "raised" =>
         /\ exc # "none"
         /\ \A q \in PhaseSet :
              PhaseIndex(q) > PhaseIndex(p) =>
                phase[q] = "not_run" /\ called \cap PhaseEndpoints(q) = {}
  /\ (exc # "none" /\ (\A p \in PhaseSet : phase[p] # "raised") =>
        /\ called \cap AllPhaseEndpoints = {}
        /\ \A p \in PhaseSet : phase[p] = "not_run")

\* A run whose Spider status poll raised has left, failed.
C2_Witness ==
  /\ pc = "done"
  /\ phase["Spider"] = "raised"
  /\ SpiderStatusEndpoint \in called
  /\ exc = "HTTPError"
  /\ Status = "failed"

\* C3: when no readiness probe answers 200 before the readiness deadline,
\* _wait_for_zap raises TimeoutError, the run fails and raises, and no
\* phase operation is invoked in that run.
C3_ReadinessTimeoutIsFatal ==
  /\ [][pc = "wait_for_zap" /\ elapsed >= ZapReadyTimeout
          => exc' = "TimeoutError" /\ pc' = "except"]_vars
  /\ [](exc = "TimeoutError" =>
          /\ pc \in FailurePath
          /\ \A p \in PhaseSet : phase[p] = "not_run"
          /\ called \cap AllPhaseEndpoints = {}
          /\ PhaseOf(call) = "none"
          /\ (pc # "except" => Status = "failed")
          /\ (pc = "done" => outcome = "raised"))

\* A run has left on the readiness timeout, its container created.
C3_Witness ==
  /\ pc = "done"
  /\ exc = "TimeoutError"
  /\ outcome = "raised"
  /\ called = {VersionEndpoint, ShutdownEndpoint}

\* C4 as stated: a run whose Spider timed out always goes on to PassiveWait.
C4_TimedOutSpiderReachesPassiveWait ==
  phase["Spider"] = "timed_out" /\ pc = "done"
    => phase["PassiveWait"] \in {"completed", "timed_out"}

\* C4: a Spider timeout raises nothing: wait_for_spider returns False, the
\* warning is logged and the run goes on to the AjaxSpider gate; PassiveWait
\* follows unless an enabled AjaxSpider raised.
C4_SpiderTimeoutIsSoft ==
  /\ [][pc = "wait_for_spider" /\ elapsed >= SpiderTimeout
          => pc' = "spider_done" /\ ~success' /\ exc' = "none"]_vars
  /\ [][pc = "spider_done" /\ ~success
          => /\ phase'["Spider"] = "timed_out"
             /\ SpiderWarning \in warnings'
             /\ exc' = "none"
             /\ pc' = "ajax_spider"]_vars
  /\ [](phase["Spider"] = "timed_out" =>
          /\ SpiderWarning \in warnings
          /\ (exc # "none" => \E p \in PhaseSet : phase[p] = "raised")
          /\ (phase["AjaxSpider"] = "skipped" /\ phase["PassiveWait"] = "not_run"
                => pc = "passive")
          /\ (pc = "done" /\ phase["AjaxSpider"] # "raised"
                => /\ phase["PassiveWait"] \in {"completed", "timed_out"}
                   /\ RecordsEndpoint \in called))

\* A run whose Spider timed out has returned a completed record.
C4_Witness ==
  /\ pc = "done"
  /\ phase["Spider"] = "timed_out"
  /\ SpiderWarning \in warnings
  /\ phase["PassiveWait"] = "completed"
  /\ outcome = "returned"
  /\ Status = "completed"

\* The alerts the parser keeps: those whose codes int() accepts.
WellFormed(alerts) == {i \in 1..Len(alerts) : ~parse_raises(alerts[i])}

\* C5 as stated: a run whose ActiveScan timed out always ends completed.
C5_TimedOutActiveScanCompletes ==
  phase["ActiveScan"] = "timed_out" /\ pc = "done" => Status = "completed"

\* C5: an ActiveScan timeout raises nothing: wait_for_active_scan returns
\* False, the warning is logged and the run goes on to Collect, which
\* requests the alerts; when that request succeeds the alerts are normalized
\* and the record is completed.
C5_ActiveTimeoutIsSoft ==
  /\ [][pc = "wait_for_active" /\ elapsed >= active_timeout(cfg)
          => pc' = "active_done" /\ ~success' /\ exc' = "none"]_vars
  /\ [][pc = "active_done" /\ ~success
          => /\ phase'["ActiveScan"] = "timed_out"
             /\ ActiveWarning \in warnings'
             /\ exc' = "none"
             /\ pc' = "collect"]_vars
  /\ [][pc = "collect" /\ zap_url # "None" => call' = AlertsEndpoint]_vars
  /\ [](phase["ActiveScan"] = "timed_out" =>
          /\ ActiveWarning \in warnings
          /\ (exc # "none" => phase["Collect"] = "raised")
          /\ (pc = "done" => phase["Collect"] \in {"completed", "raised"})
          /\ (phase["Collect"] = "completed" =>
                /\ Status = "completed"
                /\ exc = "none"
                /\ Len(scan_results["vulnerabilities"])
                     = Cardinality(WellFormed(raw_alerts))
                /\ scan_results["statistics"]["total"]
                     = Cardinality(WellFormed(raw_alerts))
                /\ \A i \in 1..Len(scan_results["vulnerabilities"]) :
                     scan_results["vulnerabilities"][i]["severity"]
                       \in {"critical", "high", "medium", "low", "info"}))

\* A run whose ActiveScan timed out has returned a completed record with
\* the fetched alerts normalized.
C5_Witness ==
  /\ pc = "done"
  /\ phase["ActiveScan"] = "timed_out"
  /\ outcome = "returned"
  /\ Status = "completed"
  /\ raw_alerts = <<Malformed, Low>>
  /\ Len(scan_results["vulnerabilities"]) = 1

\* C6: the phases run in the order Spider, AjaxSpider, PassiveWait,
\* ActiveScan, Collect: a phase begins only when every earlier one has ended
\* or been skipped, and a call of a phase is made only while no later phase
\* has begun.
C6_PhasesInOrder ==
  /\ \A i, j \in 1..Len(Phases) :
       i < j /\ phase[Phases[j]] # "not_run" => phase[Phases[i]] \in Settled
  /\ \A p \in PhaseSet :
       called \cap PhaseEndpoints(p) # {} => phase[p] \notin {"not_run", "skipped"}
  /\ (PhaseOf(call) # "none" =>
        \A q \in PhaseSet :
          /\ (PhaseIndex(q) > PhaseIndex(PhaseOf(call)) =>
                phase[q] = "not_run" /\ called \cap PhaseEndpoints(q) = {})
          /\ (PhaseIndex(q) < PhaseIndex(PhaseOf(call)) => phase[q] \in Settled))

\* The alerts are requested in a run in which all four earlier phases made
\* their calls.
C6_Witness ==
  /\ call = AlertsEndpoint
  /\ {SpiderStatusEndpoint, AjaxScanEndpoint, RecordsEndpoint,
      ActiveStatusEndpoint} \subseteq called
  /\ \A p \in PhaseSet \ {"Collect"} : phase[p] \in Settled

\* C7: whatever the flags, a run that reaches ActiveScan or Collect, or
\* returns, has run PassiveWait first; PassiveWait is missing only from
\* runs that failed before it.
C7_PassiveWaitAlwaysRuns ==
  /\ (\/ phase["ActiveScan"] # "not_run"
      \/ phase["Collect"] # "not_run"
      \/ called \cap (PhaseEndpoints("ActiveScan") \cup PhaseEndpoints("Collect")) # {}
      \/ pc \in {"active_scan", "active_start", "wait_for_active",
                 "active_sleep", "active_done", "collect"}
      \/ (pc \in FailurePath /\ exc = "none"))
       => /\ phase["PassiveWait"] \in {"completed", "timed_out"}
          /\ RecordsEndpoint \in called
  /\ (pc = "done" /\ phase["PassiveWait"] = "not_run" =>
        /\ outcome = "raised"
        /\ phase["ActiveScan"] = "not_run"
        /\ phase["Collect"] = "not_run")

\* With Spider, AjaxSpider and ActiveScan all disabled the run has polled
\* the passive records and returned.
C7_Witness ==
  /\ pc = "done"
  /\ cfg.spider = "false"
  /\ cfg.ajax_spider = "unset"
  /\ cfg.active_scan = "false"
  /\ outcome = "returned"
  /\ phase["PassiveWait"] = "completed"
  /\ RecordsEndpoint \in called

\* C8: the first passive poll that reports zero records ends PassiveWait,
\* and no passive poll is made after PassiveWait has completed.
C8_PassiveStopsAtFirstZero ==
  [][/\ (pc = "wait_for_passive" /\ call' = RecordsEndpoint /\ polled' = 0
           => pc' = "active_scan" /\ phase'["PassiveWait"] = "completed")
     /\ (phase["PassiveWait"] = "completed" => call' # RecordsEndpoint)]_vars

\* PassiveWait has ended on a poll of zero records after two earlier polls.
C8_Witness ==
  /\ pc = "active_scan"
  /\ call = RecordsEndpoint
  /\ polled = 0
  /\ elapsed = 2 * PassiveInterval
  /\ phase["PassiveWait"] = "completed"

\* C9: a run that raised an exception raises it to the caller of
\* execute_scan, with the record failed and its error the exception's text;
\* a failed run never leaves the record completed.
C9_FailureIsRaisedAndRecorded ==
  /\ (pc = "done" => (outcome = "raised" <=> exc # "none"))
  /\ (pc = "done" /\ outcome = "raised" =>
        /\ Status = "failed"
        /\ Get(scan_results, "error", "absent") = exc)
  /\ (exc # "none" /\ pc \in FailurePath \ {"except"} => Status # "completed")

\* A run whose alert request raised has raised to the caller, over the
\* record an earlier completed run left.
C9_Witness ==
  /\ pc = "done"
  /\ outcome = "raised"
  /\ exc = "HTTPError"
  /\ phase["Collect"] = "raised"
  /\ Status = "failed"
  /\ scan_results["error"] = "HTTPError"
  /\ "vulnerabilities" \in DOMAIN scan_results

\* C10 as stated: a terminal status never changes, whatever is called after.
C10_StatusIsMonotonic ==
  [][(Status \in {"completed", "failed"}) => (Status' = Status)]_vars

\* The positions of the cleanup step.
CleanupPositions == {"finally", "save_logs", "shutdown", "stop_container"}

\* C11: no step of the cleanup, whether it succeeds or fails, changes the
\* record or the pending exception, and execute_scan then returns or raises
\* by the pending exception alone: the outcome is that of the same run with
\* a cleanup that succeeds throughout.
C11_CleanupErrorsKeepOutcome ==
  [][/\ (pc \in CleanupPositions =>
           /\ scan_results' = scan_results
           /\ exc' = exc
           /\ outcome' = outcome
           /\ pc' \in CleanupPositions \cup {"exit"})
     /\ (pc = "exit" =>
           /\ scan_results' = scan_results
           /\ exc' = exc
           /\ outcome' = IF exc = "none" THEN "returned" ELSE "raised"
           /\ pc' = "done")]_vars

\* A completed run has returned although all three cleanup steps failed.
C11_Witness ==
  /\ pc = "done"
  /\ cleanup_log = <<"logs_error", "shutdown_error", "stop_error">>
  /\ exc = "none"
  /\ outcome = "returned"
  /\ Status = "completed"

\* C12: a run interrupted inside a poll loop goes straight to the cleanup,
\* which is invoked once before execute_scan leaves, and no step after the
\* interrupt requests an endpoint of a phase; the interrupt is raised to
\* the caller.
C12_InterruptStillCleansUp ==
  /\ [][exc # "KeyboardInterrupt" /\ exc' = "KeyboardInterrupt"
          => pc \in PollLoops /\ pc' = "finally" /\ called' = called]_vars
  /\ [](exc = "KeyboardInterrupt" =>
          /\ pc \in FailurePath \ {"except"}
          /\ PhaseOf(call) = "none"
          /\ cleanups = (IF pc = "finally" THEN 0 ELSE 1)
          /\ (pc \in {"exit", "done"} /\ scanner => Len(cleanup_log) = 3)
          /\ (pc = "done" => outcome = "raised"))
  /\ [][exc = "KeyboardInterrupt" /\ exc' = "KeyboardInterrupt"
          => called' \cap AllPhaseEndpoints = called \cap AllPhaseEndpoints]_vars

\* A run interrupted while it waited for the ActiveScan has left after the
\* cleanup.
C12_Witness ==
  /\ pc = "done"
  /\ exc = "KeyboardInterrupt"
  /\ phase["ActiveScan"] = "started"
  /\ ActiveStatusEndpoint \in called
  /\ cleanups = 1
  /\ Len(cleanup_log) = 3
  /\ outcome = "raised"

\* The container name derived from job j's scan id.
OwnName(j) == container_name(jobs[j].scan_id)

\* C13: two jobs with distinct scan ids only ever operate on the container
\* named after their own id, and a step of one job, failure and cleanup
\* included, leaves the other job's container and record as they were.
C13_JobsAreIsolated ==
  /\ [](\A j \in Jobs :
          /\ touched[j] \subseteq {OwnName(j)}
          /\ jobs[j].container \in {NoName, OwnName(j)}
          /\ jobs[j].zap_url \in {NoName, OwnName(j)}
          /\ \A k \in Jobs \ {j} : touched[j] \cap touched[k] = {})
  /\ [][\E j \in Jobs : \A k \in Jobs \ {j} :
          /\ jobs'[k] = jobs[k]
          /\ (jobs[k].container \in docker' <=> jobs[k].container \in docker)
          /\ (OwnName(k) \in docker' <=> OwnName(k) \in docker)]_vars

\* Job 1 has failed and removed its container while job 2 is scanning with
\* its container in place.
C13_Witness ==
  /\ jobs[1].pc = "done"
  /\ jobs[1].status = "failed"
  /\ touched[1] = {OwnName(1)}
  /\ OwnName(1) \notin docker
  /\ jobs[2].pc = "scanning"
  /\ jobs[2].container \in docker

SeverityCounters == {"critical", "high", "medium", "low", "info"}

\* C14: for every alert list, the empty one and those with malformed
\* records included, the statistics parse_alerts returns have total equal
\* to the sum of the five severity counters, all zero for the empty list.
C14_TotalIsSumOfSeverities ==
  LET statistics == parsed.statistics IN
  /\ DOMAIN statistics = SeverityCounters \cup {"total"}
  /\ statistics["total"] = statistics["critical"] + statistics["high"]
       + statistics["medium"] + statistics["low"] + statistics["info"]
  /\ (stage # "input" /\ given = <<>> => statistics = ZeroStatistics)
  /\ (stage # "input" => statistics["total"] <= Len(given))

\* parse_alerts has gone over a list whose second record is malformed
\* and whose first is informational.
C14_Witness ==
  /\ stage = "parsed"
  /\ Len(given) = 2
  /\ severity_of(given[1]) = "info"
  /\ ~parse_raises(given[1])
  /\ parse_raises(given[2])
  /\ parsed.statistics["total"] = 1

\* The number a risk or confidence code stands for, -1 when it stands
\* for none of 0 to 4.
CodeNumber(v) ==
  CASE v \in {"0", "i0"} -> 0 [] v \in {"1", "i1"} -> 1 [] v \in {"2", "i2"} -> 2
    [] v \in {"3", "i3"} -> 3 [] v \in {"4", "i4"} -> 4 [] OTHER -> -1

\* C15: the severity of a record is fixed by its risk code alone: 0 info,
\* 1 low, 2 medium, 3 high, 4 critical, and info for every other code, a
\* missing one counting as 0; the findings carry that severity.
C15_SeverityMapping ==
  /\ \A i \in 1..Len(given) :
       LET code == CodeNumber(Get(given[i], "risk", "0")) IN
       severity_of(given[i]) =
         CASE code = 1 -> "low" [] code = 2 -> "medium" [] code = 3 -> "high"
           [] code = 4 -> "critical" [] OTHER -> "info"
  /\ \A k \in 1..Len(parsed.vulnerabilities) :
       LET vuln == parsed.vulnerabilities[k] IN
       vuln.severity =
         CASE vuln.risk_code = 1 -> "low" [] vuln.risk_code = 2 -> "medium"
           [] vuln.risk_code = 3 -> "high" [] vuln.risk_code = 4 -> "critical"
           [] OTHER -> "info"

\* A record with the int 4 has become a critical finding, next to one
\* with code 9, which is informational.
C15_Witness ==
  /\ stage = "parsed"
  /\ Len(parsed.vulnerabilities) = 2
  /\ Get(given[1], "risk", "0") = "i4"
  /\ parsed.vulnerabilities[1].severity = "critical"
  /\ Get(given[2], "risk", "0") = "9"
  /\ parsed.vulnerabilities[2].severity = "info"

\* C16: the confidence of a record is fixed by its confidence code alone:
\* 0 false_positive, 1 low, 2 medium, 3 high, 4 confirmed, and low for
\* every other code; the findings carry that confidence.
C16_ConfidenceMapping ==
  /\ \A i \in 1..Len(given) :
       LET code == IF "confidence" \in DOMAIN given[i]
                   THEN CodeNumber(given[i]["confidence"]) ELSE 0 IN
       confidence_of(given[i]) =
         CASE code = 0 -> "false_positive" [] code = 1 -> "low"
           [] code = 2 -> "medium" [] code = 3 -> "high"
           [] code = 4 -> "confirmed" [] OTHER -> "low"
  /\ \A k \in 1..Len(parsed.vulnerabilities) :
       LET vuln == parsed.vulnerabilities[k] IN
       vuln.confidence =
         CASE vuln.confidence_code = 0 -> "false_positive"
           [] vuln.confidence_code = 1 -> "low"
           [] vuln.confidence_code = 2 -> "medium"
           [] vuln.confidence_code = 3 -> "high"
           [] vuln.confidence_code = 4 -> "confirmed"
           [] OTHER -> "low"

\* A record with the int 3 has become a finding of high confidence, next
\* to one with code 9, whose confidence is low.
C16_Witness ==
  /\ stage = "parsed"
  /\ Len(parsed.vulnerabilities) = 2
  /\ Get(given[1], "confidence", "0") = "i3"
  /\ parsed.vulnerabilities[1].confidence = "high"
  /\ Get(given[2], "confidence", "0") = "9"
  /\ parsed.vulnerabilities[2].confidence = "low"

\* An alert _parse_alert returns a finding for.
Parseable(alert) == ~parse_raises(alert)

\* The findings of the parseable alerts of a list, in the list's order.
FindingsOf(alerts) ==
  LET kept == SelectSeq(alerts, Parseable)
  IN [k \in 1..Len(kept) |-> _parse_alert(kept[k])]

\* C17: whatever records of a list fail to parse, parse_alerts returns the
\* findings of exactly the parseable ones, in input order, and statistics
\* whose total is the number of those findings.
C17_MalformedAlertsAreSkipped ==
  stage # "input" =>
    /\ parsed.vulnerabilities = FindingsOf(given)
    /\ parsed.statistics["total"] = Len(parsed.vulnerabilities)
    /\ \A name \in SeverityCounters :
         parsed.statistics[name] =
           Cardinality({k \in 1..Len(parsed.vulnerabilities) :
                          parsed.vulnerabilities[k].severity = name})

\* parse_alerts has gone over a list whose first record is malformed and
\* returned the finding of the second.
C17_Witness ==
  /\ stage = "parsed"
  /\ Len(given) = 2
  /\ parse_raises(given[1])
  /\ ~parse_raises(given[2])
  /\ parsed.vulnerabilities = <<_parse_alert(given[2])>>
  /\ parsed.statistics["total"] = 1

\* C18 as stated: a record whose risk code is none of 0 to 4, and whose
\* confidence code is sound, is never dropped: it yields a finding, of
\* severity info.
C18_UnrecognizedRiskYieldsInfo ==
  stage # "input"
  /\ (\A i \in 1..Len(given) : Get(given[i], "confidence", "0") \in Numerals)
    => /\ Len(parsed.vulnerabilities) = Len(given)
       /\ \A i \in 1..Len(given) :
            CodeNumber(Get(given[i], "risk", "0")) = -1
              => parsed.vulnerabilities[i].severity = "info"

\* C19: a run whose enabled phases all completed and whose alert request
\* succeeded has status completed and the statistics and findings that
\* parse_alerts gives for the fetched alerts, and it returns; for the two
\* alerts of the example the statistics are critical 1, low 1, total 2.
C19_CompletedRunReportsFetchedAlerts ==
  /\ (\A p \in PhaseSet : phase[p] \in {"completed", "skipped"})
       /\ phase["Collect"] = "completed"
       => /\ exc = "none"
          /\ pc \in {"finally", "save_logs", "shutdown", "stop_container",
                     "exit", "done"}
          /\ (pc = "done" => outcome = "returned")
          /\ Status = "completed"
          /\ scan_results["statistics"] = parse_alerts(raw_alerts).statistics
          /\ scan_results["vulnerabilities"] = FindingsOf(raw_alerts)
          /\ (phase["Spider"] = "skipped" <=> ~enabled(cfg.spider, TRUE))
          /\ (phase["AjaxSpider"] = "skipped" <=> ~enabled(cfg.ajax_spider, FALSE))
          /\ (phase["ActiveScan"] = "skipped" <=> ~enabled(cfg.active_scan, TRUE))
  /\ (phase["Collect"] = "completed"
        /\ raw_alerts = <<("risk" :> "4") @@ ("confidence" :> "3"),
                          ("risk" :> "1") @@ ("confidence" :> "1")>>
        => scan_results["statistics"] =
             [critical |-> 1, high |-> 0, medium |-> 0, low |-> 1, info |-> 0,
              total |-> 2])

\* The example: Spider and ActiveScan enabled, AjaxSpider not; Spider done
\* at its 2nd poll, PassiveWait at its 1st, ActiveScan at its 3rd; the two
\* alerts fetched and the record completed.
C19_Witness ==
  /\ pc = "finally"
  /\ enabled(cfg.spider, TRUE)
  /\ ~enabled(cfg.ajax_spider, FALSE)
  /\ enabled(cfg.active_scan, TRUE)
  /\ polls = [Spider |-> 2, PassiveWait |-> 1, ActiveScan |-> 3]
  /\ phase = [Spider |-> "completed", AjaxSpider |-> "skipped",
              PassiveWait |-> "completed", ActiveScan |-> "completed",
              Collect |-> "completed"]
  /\ raw_alerts = <<Critical, Low>>
  /\ Status = "completed"
  /\ scan_results["statistics"] =
       [critical |-> 1, high |-> 0, medium |-> 0, low |-> 1, info |-> 0,
        total |-> 2]

\* C20: deduplicate applied to what deduplicate returned returns the same
\* list; what it returns has no two findings with the same type, URL and
\* parameter, and keeps the first finding of each key.
C20_DeduplicateIsIdempotent ==
  /\ [][stage = "deduplicated" /\ stage' = "deduplicated_twice"
          => unique' = unique]_vars
  /\ [](stage \in {"deduplicated", "deduplicated_twice"} =>
          /\ \A a, b \in 1..Len(unique) :
               dedup_key(unique[a]) = dedup_key(unique[b]) => a = b
          /\ {dedup_key(unique[a]) : a \in 1..Len(unique)}
               = {dedup_key(parsed.vulnerabilities[a]) :
                    a \in 1..Len(parsed.vulnerabilities)}
          /\ (parsed.vulnerabilities # <<>> => unique[1] = parsed.vulnerabilities[1]))

\* Of two findings with the same type, URL and parameter one has survived
\* both applications.
C20_Witness ==
  /\ stage = "deduplicated_twice"
  /\ Len(parsed.vulnerabilities) = 2
  /\ parsed.vulnerabilities[1] # parsed.vulnerabilities[2]
  /\ unique = <<parsed.vulnerabilities[1]>>

\* The places of a list that hold the first finding of their key.
FirstOfKey(vulnerabilities) ==
  {i \in 1..Len(vulnerabilities) :
     \A j \in 1..(i - 1) :
       dedup_key(vulnerabilities[j]) # dedup_key(vulnerabilities[i])}

\* The k-th smallest member of a set of numbers.
Nth(S, k) == CHOOSE i \in S : Cardinality({j \in S : j < i}) = k - 1

\* C21: deduplicate returns the findings that are the first of their
\* (type, url, parameter) key in the input, one for each key of the input,
\* in the order of the input, and nothing else.
C21_DeduplicateKeepsFirstOfEachKey ==
  stage = "deduplicated" =>
    LET vulnerabilities == parsed.vulnerabilities
        first == FirstOfKey(vulnerabilities)
    IN /\ unique = [k \in 1..Cardinality(first) |-> vulnerabilities[Nth(first, k)]]
       /\ Len(unique) = Cardinality({dedup_key(vulnerabilities[i]) :
                                       i \in 1..Len(vulnerabilities)})
       /\ \A k \in 1..Len(unique) :
            \E i \in 1..Len(vulnerabilities) : unique[k] = vulnerabilities[i]

\* Of three findings the first and the third share a key and differ; the
\* first and the second have survived, in that order.
C21_Witness ==
  /\ stage = "deduplicated"
  /\ Len(parsed.vulnerabilities) = 3
  /\ dedup_key(parsed.vulnerabilities[1]) = dedup_key(parsed.vulnerabilities[3])
  /\ dedup_key(parsed.vulnerabilities[1]) # dedup_key(parsed.vulnerabilities[2])
  /\ parsed.vulnerabilities[1] # parsed.vulnerabilities[3]
  /\ unique = <<parsed.vulnerabilities[1], parsed.vulnerabilities[2]>>

\* The findings of a list whose confidence is one of the given names, in
\* the list's order.
WithConfidence(vulnerabilities, names) ==
  LET named(vuln) == vuln.confidence \in names
  IN SelectSeq(vulnerabilities, named)

\* C22 as stated: with min_confidence 'medium' every finding that is
\* removed has confidence low.
C22_MediumRemovesOnlyLow ==
  stage = "filtered" /\ min_confidence = "medium" =>
    \A i \in 1..Len(parsed.vulnerabilities) :
      parsed.vulnerabilities[i].confidence # "low" =>
        \E k \in 1..Len(filtered) : filtered[k] = parsed.vulnerabilities[i]

\* C22: with min_confidence 'medium', filter_by_confidence returns the
\* findings whose confidence is medium, high or confirmed, in input order,
\* and removes those whose confidence is low or false_positive; whatever
\* tier is asked for, no false_positive finding is returned.
C22_MediumKeepsMediumAndAbove ==
  stage = "filtered" =>
    /\ (min_confidence = "medium" =>
          /\ filtered = WithConfidence(parsed.vulnerabilities,
                                       {"medium", "high", "confirmed"})
          /\ Len(parsed.vulnerabilities) - Len(filtered)
               = Len(WithConfidence(parsed.vulnerabilities,
                                    {"low", "false_positive"})))
    /\ (min_confidence \in {"low", "medium", "high", "confirmed"} =>
          \A k \in 1..Len(filtered) : filtered[k].confidence # "false_positive")

\* Of a high, a low and a false_positive finding, the filter at 'medium'
\* has returned the high one alone.
C22_Witness ==
  /\ stage = "filtered"
  /\ min_confidence = "medium"
  /\ Len(parsed.vulnerabilities) = 3
  /\ parsed.vulnerabilities[1].confidence = "high"
  /\ parsed.vulnerabilities[2].confidence = "low"
  /\ parsed.vulnerabilities[3].confidence = "false_positive"
  /\ filtered = <<parsed.vulnerabilities[1]>>

\* The positions of start_container after containers.run has returned.
StartedPositions == {"wait_for_zap", "zap_sleep", "target"}

\* C23: start_container goes on to create its container only when none of
\* its name is left, having removed by force the one it found; containers.run
\* then creates the container, and while the scanner holds its handle the
\* container of that name is the one this start created.
C23_StartReplacesOldContainer ==
  /\ [][pc = "remove_old" /\ pc' = "run"
          => /\ runtime' = "absent"
             /\ (removed_old' <=> runtime # "absent")]_vars
  /\ [][pc = "run" /\ pc' = "wait_for_zap"
          => /\ runtime = "absent"
             /\ runtime' = "running"
             /\ container' = "handle"]_vars
  /\ [](pc = "run" => runtime = "absent")
  /\ [](container = "handle" => runtime = "running")
  /\ [](pc \in StartedPositions => container = "handle" /\ exc = "none")

\* The start has removed the container an earlier run left behind and
\* created its own, and the engine has answered the readiness probe.
C23_Witness ==
  /\ pc = "target"
  /\ removed_old
  /\ runtime = "running"
  /\ container = "handle"
  /\ zap_url = "url"
  /\ Status \in {"completed", "failed"}

\* The last entry of a log.
Last(log) == log[Len(log)]

\* C24: stop_container raises nothing: whether the stop and the removal
\* succeed, the one forced removal succeeds, or that fails too, the step
\* ends with the handle and the endpoint dropped and the pending exception
\* as it was; a container that could not be removed stays in the runtime.
C24_StopContainerNeverRaises ==
  /\ [][pc = "stop_container" =>
          /\ pc' = "exit"
          /\ exc' = exc
          /\ scan_results' = scan_results
          /\ container' = "None"
          /\ zap_url' = "None"
          /\ cleanup_log' = Append(cleanup_log, Last(cleanup_log'))
          /\ Last(cleanup_log') \in
               (IF container = "None" THEN {"stop_nothing"}
                ELSE {"stop", "stop_forced", "stop_error"})
          /\ (Last(cleanup_log') \in {"stop", "stop_forced"} => runtime' = "absent")
          /\ (Last(cleanup_log') \in {"stop_error", "stop_nothing"}
                => runtime' = runtime)]_vars
  /\ [](pc \in {"exit", "done"} => container = "None" /\ zap_url = "None")

\* The stop, the removal and the forced removal have all failed: the
\* container is still in the runtime and the scanner holds nothing.
C24_Witness ==
  /\ pc = "exit"
  /\ Len(cleanup_log) = 3
  /\ cleanup_log[3] = "stop_error"
  /\ runtime = "running"
  /\ container = "None"
  /\ zap_url = "None"
  /\ exc = "none"

\* C25: the cleanup of a scanner fetches the logs, then asks the engine to
\* shut down, then stops the container, each step following the one before
\* whether that one failed or not; a container the scanner holds is stopped
\* or its stop is attempted in every run.
C25_CleanupStepsInOrder ==
  /\ [][/\ (pc = "save_logs" =>
               /\ cleanup_log = <<>>
               /\ pc' = "shutdown"
               /\ Len(cleanup_log') = 1
               /\ cleanup_log'[1] \in {"logs", "logs_error"})
         /\ (pc = "shutdown" =>
               /\ Len(cleanup_log) = 1
               /\ pc' = "stop_container"
               /\ cleanup_log' = Append(cleanup_log, cleanup_log'[2])
               /\ cleanup_log'[2] \in {"shutdown", "shutdown_error"}
               /\ call' = (IF zap_url = "None" THEN "none" ELSE ShutdownEndpoint)
               /\ container' = container)
         /\ (pc = "stop_container" =>
               /\ Len(cleanup_log) = 2
               /\ cleanup_log' = Append(cleanup_log, cleanup_log'[3])
               /\ (container = "handle" =>
                     cleanup_log'[3] \in {"stop", "stop_forced", "stop_error"}))]_vars
  /\ [](pc \in {"exit", "done"} /\ scanner => Len(cleanup_log) = 3)

\* The logs could not be saved and the engine refused the shutdown call;
\* the container has been stopped and removed all the same.
C25_Witness ==
  /\ pc = "exit"
  /\ cleanup_log = <<"logs_error", "shutdown_error", "stop">>
  /\ call = "none"
  /\ ShutdownEndpoint \in called
  /\ runtime = "absent"

\* The endpoints the three poll loops request.
PollEndpoints == {SpiderStatusEndpoint, ActiveStatusEndpoint, RecordsEndpoint}

\* C26 as stated: a poll of a loop that fails in transport or by its HTTP
\* status (it gives no number, and no reply was there to misread) raises
\* nothing, and the loop goes on to its sleep and polls again.
C26_PollErrorsAreTolerated ==
  [][call' \in PollEndpoints /\ polled' = -1
       /\ exc' # "ValueError: invalid literal for int()"
       => /\ exc' = "none"
          /\ pc' \in {"spider_sleep", "active_sleep", "passive_sleep"}]_vars

\* C27 as stated: whatever the endpoint, _api_call returns only when the
\* response has a 2xx status; a transport failure and any other status
\* make it raise.
C27_NonSuccessAlwaysRaises ==
  result.kind = "returned" =>
    /\ ~api_reply.raised
    /\ api_reply.status_code \in 200..299

\* C28 as stated: the start request of the active scan carries the policy
\* name the job is configured with, and none when none is configured.
C28_StartCarriesPolicyName ==
  sent.endpoint = ActiveScanEndpoint =>
    Get(sent.params, "scanPolicyName", Missing) = policy_name

\* C29: a status poll of the Spider or the ActiveScan that returns 100 or
\* more ends the wait with True at that poll, and the phase is complete; one
\* that returns less, a reply without a status counting as 0, leaves the
\* wait in its loop; no status of a phase is polled once its wait has ended.
C29_CompleteAtHundredOrMore ==
  /\ [][call' \in {SpiderStatusEndpoint, ActiveStatusEndpoint} /\ exc' = "none" =>
          /\ pc \in {"wait_for_spider", "wait_for_active"}
          /\ polled' \in 0..101
          /\ success' = (polled' >= 100)
          /\ pc' = (IF pc = "wait_for_spider"
                    THEN (IF polled' >= 100 THEN "spider_done" ELSE "spider_sleep")
                    ELSE (IF polled' >= 100 THEN "active_done" ELSE "active_sleep"))]_vars
  /\ [][/\ (pc = "spider_done" /\ success =>
               phase'["Spider"] = "completed" /\ call' = "none")
         /\ (pc = "active_done" /\ success =>
               phase'["ActiveScan"] = "completed" /\ call' = "none")
         /\ (phase["Spider"] \in Settled => call' # SpiderStatusEndpoint)
         /\ (phase["ActiveScan"] \in Settled => call' # ActiveStatusEndpoint)]_vars
  /\ [](pc \in {"spider_sleep", "active_sleep"} => ~success)

\* The first status poll of the Spider has returned 101 and the wait has
\* ended with True.
C29_Witness ==
  /\ pc = "spider_done"
  /\ call = SpiderStatusEndpoint
  /\ polled = 101
  /\ success
  /\ polls["Spider"] = 1

\* C30 as stated: the record holds the findings and the statistics both or
\* neither, and holds them only while its status is completed.
C30_FindingsOnlyWhenCompleted ==
  /\ ("vulnerabilities" \in DOMAIN scan_results
        <=> "statistics" \in DOMAIN scan_results)
  /\ ("vulnerabilities" \in DOMAIN scan_results => Status = "completed")

\* The phases a toggle switches, with the toggle's value in the job's
\* configuration.
Toggle(p) ==
  CASE p = "Spider" -> cfg.spider
    [] p = "AjaxSpider" -> cfg.ajax_spider
    [] p = "ActiveScan" -> cfg.active_scan

\* What the toggle of a phase means when the key is absent.
ToggleDefault(p) == p \in {"Spider", "ActiveScan"}

\* Whether the job's configuration switches the phase on.
SwitchedOn(p) ==
  \/ Toggle(p) = "true"
  \/ Toggle(p) = "unset" /\ ToggleDefault(p)

\* C31: Spider and ActiveScan run unless their toggle is false, AjaxSpider
\* runs only when its toggle is true; a phase that is switched off has none
\* of its endpoints requested in the run; a run that returned has run every
\* phase that is switched on, and PassiveWait and Collect whatever the
\* toggles.
C31_TogglesGateEngineTraffic ==
  /\ \A p \in {"Spider", "AjaxSpider", "ActiveScan"} :
       /\ (~SwitchedOn(p) =>
             /\ called \cap PhaseEndpoints(p) = {}
             /\ call \notin PhaseEndpoints(p)
             /\ phase[p] \in {"not_run", "skipped"})
       /\ (pc = "done" /\ outcome = "returned" =>
             IF SwitchedOn(p)
             THEN /\ phase[p] \in {"completed", "timed_out"}
                  /\ called \cap PhaseEndpoints(p) # {}
             ELSE phase[p] = "skipped")
  /\ (pc = "done" /\ outcome = "returned" =>
        /\ SpiderScanEndpoint \in called <=> cfg.spider # "false"
        /\ AjaxScanEndpoint \in called <=> cfg.ajax_spider = "true"
        /\ ActiveScanEndpoint \in called <=> cfg.active_scan # "false"
        /\ RecordsEndpoint \in called
        /\ AlertsEndpoint \in called
        /\ phase["PassiveWait"] \in {"completed", "timed_out"}
        /\ phase["Collect"] = "completed")

\* A run without any toggle configured has returned: the Spider and the
\* ActiveScan were started, no AjaxSpider endpoint was requested.
C31_Witness ==
  /\ pc = "done"
  /\ outcome = "returned"
  /\ cfg.spider = "unset"
  /\ cfg.ajax_spider = "unset"
  /\ cfg.active_scan = "unset"
  /\ {SpiderScanEndpoint, ActiveScanEndpoint, RecordsEndpoint, AlertsEndpoint}
       \subseteq called
  /\ called \cap PhaseEndpoints("AjaxSpider") = {}
  /\ phase["AjaxSpider"] = "skipped"

\* The deadline of the wait at a position of a status poll loop.
WaitTimeout(position) ==
  IF position \in {"wait_for_spider", "spider_sleep", "spider_done"}
  THEN SpiderTimeout ELSE active_timeout(cfg)

\* The status endpoint of the wait at a position of a status poll loop.
WaitEndpoint(position) ==
  IF position \in {"wait_for_spider", "spider_sleep", "spider_done"}
  THEN SpiderStatusEndpoint ELSE ActiveStatusEndpoint

\* C32: wait_for_spider and wait_for_active_scan poll only while the time
\* elapsed is below the timeout, and once it is not they return False
\* without a further poll; they return True exactly when a poll made below
\* the timeout returned 100 or more; with a timeout of zero or less no status
\* is polled at all.
C32_DeadlineTestedBeforeEachPoll ==
  /\ [][/\ (call' \in {SpiderStatusEndpoint, ActiveStatusEndpoint} =>
              /\ pc \in {"wait_for_spider", "wait_for_active"}
              /\ call' = WaitEndpoint(pc)
              /\ elapsed < WaitTimeout(pc))
        /\ (pc \in {"wait_for_spider", "wait_for_active"}
              /\ elapsed >= WaitTimeout(pc) =>
              /\ call' = "none"
              /\ exc' = "none"
              /\ ~success'
              /\ pc' \in {"spider_done", "active_done"}
              /\ polls' = polls)
        /\ (pc \in {"spider_done", "active_done"} /\ ~success =>
              phase'[PhaseOf(WaitEndpoint(pc))] = "timed_out")]_vars
  /\ [](pc \in {"spider_done", "active_done"} =>
          IF success
          THEN /\ call = WaitEndpoint(pc)
               /\ polled >= 100
               /\ elapsed < WaitTimeout(pc)
          ELSE /\ call = "none"
               /\ elapsed >= WaitTimeout(pc))
  /\ [](pc \in {"spider_sleep", "active_sleep"} =>
          polled \in 0..99 /\ elapsed < WaitTimeout(pc))
  /\ [](active_timeout(cfg) <= 0 =>
          /\ polls["ActiveScan"] = 0
          /\ ActiveStatusEndpoint \notin called
          /\ pc # "active_sleep")

\* The ActiveScan's wait has returned False after a sleep that passed its
\* deadline: the one poll it made was below the timeout and returned less
\* than 100, and no poll followed the sleep.
C32_Witness ==
  /\ pc = "active_done"
  /\ ~success
  /\ call = "none"
  /\ polls["ActiveScan"] = 1
  /\ active_timeout(cfg) = ActiveInterval
  /\ elapsed >= active_timeout(cfg)
  /\ ActiveStatusEndpoint \in called

PassiveWarning == "Passive scan timeout reached"

\* C33: a records poll that fails (the call raises, or the count is no
\* number) neither completes PassiveWait nor raises: the loop sleeps and
\* polls again while the time elapsed is below the passive timeout;
\* PassiveWait ends only on a poll of zero records or at the timeout, and
\* after the timeout the run goes on, without an exception, to the
\* ActiveScan gate and from there to the ActiveScan or to Collect.
C33_PassivePollErrorsAreTolerated ==
  /\ [][/\ (pc = "wait_for_passive" =>
              /\ exc' = "none"
              /\ pc' \in {"passive_sleep", "active_scan"}
              /\ (elapsed < PassiveTimeout <=> call' = RecordsEndpoint)
              /\ (call' = RecordsEndpoint /\ polled' = -1 =>
                    /\ pc' = "passive_sleep"
                    /\ phase'["PassiveWait"] = "started")
              /\ (pc' = "active_scan" =>
                    \/ /\ call' = RecordsEndpoint
                       /\ polled' = 0
                       /\ phase'["PassiveWait"] = "completed"
                    \/ /\ call' = "none"
                       /\ elapsed >= PassiveTimeout
                       /\ phase'["PassiveWait"] = "timed_out"
                       /\ PassiveWarning \in warnings'))
        /\ (pc = "passive_sleep" => pc' = "wait_for_passive" /\ exc' = "none")
        /\ (pc = "active_scan" =>
              /\ exc' = "none"
              /\ pc' = (IF cfg.active_scan = "false" THEN "collect"
                        ELSE "active_start"))]_vars
  /\ [](pc \in {"wait_for_passive", "passive_sleep", "active_scan"} =>
          exc = "none")

\* The second records poll of a run has failed: nothing is raised and the
\* loop is at its sleep, PassiveWait still going on.
C33_Witness ==
  /\ pc = "passive_sleep"
  /\ call = RecordsEndpoint
  /\ polled = -1
  /\ exc = "none"
  /\ polls["PassiveWait"] = 2
  /\ phase["PassiveWait"] = "started"

\* The positions of the four poll loops.
ReadinessLoop == {"wait_for_zap", "zap_sleep"}
SpiderLoop == {"wait_for_spider", "spider_sleep"}
PassiveLoop == {"wait_for_passive", "passive_sleep"}
ActiveLoop == {"wait_for_active", "active_sleep"}

\* The position a poll loop is entered from.
LoopEntry(loop) ==
  CASE loop = ReadinessLoop -> "run"
    [] loop = SpiderLoop -> "spider_start"
    [] loop = PassiveLoop -> "passive"
    [] loop = ActiveLoop -> "active_start"

\* C34: every sleep advancing the clock by its interval at least, an
\* execute_scan that was entered ends whatever the engine replies: its
\* cleanup is done and it has returned or raised.  Each of the four poll
\* loops is entered at most once in a run, from the step before it, so each
\* is left for good after finitely many polls.
C34_EveryRunTerminates ==
  /\ (pc \notin {"idle", "done"}) ~>
       (pc = "done" /\ cleanups = 1 /\ outcome \in {"returned", "raised"})
  /\ [][\A loop \in {ReadinessLoop, SpiderLoop, PassiveLoop, ActiveLoop} :
          /\ (pc \notin loop /\ pc' \in loop => pc = LoopEntry(loop))
          /\ (pc = LoopEntry(loop) => pc' \notin {pc, "idle", "initialize"})]_vars

\* A run has ended after the Spider, the PassiveWait and the ActiveScan all
\* ran into their deadlines.
C34_Witness ==
  /\ pc = "done"
  /\ outcome = "returned"
  /\ cleanups = 1
  /\ phase["Spider"] = "timed_out"
  /\ phase["PassiveWait"] = "timed_out"
  /\ phase["ActiveScan"] = "timed_out"
  /\ active_timeout(cfg) = ActiveInterval

\* C35: an endpoint of a phase is requested only in a run in which a
\* readiness probe has returned status 200; start_container returns only on
\* such a probe; a probe that gets another status or a RequestException
\* raises nothing: the loop sleeps and probes again, and only the deadline
\* raises, a TimeoutError.
C35_NoPhaseCallBeforeReady ==
  /\ [](call \in AllPhaseEndpoints \/ called \cap AllPhaseEndpoints # {} =>
          ready)
  /\ [](ready => VersionEndpoint \in called)
  /\ [](pc \in ReadinessLoop \cup {"initialize", "remove_old", "run"} =>
          ~ready)
  /\ [][/\ (pc' = "target" =>
              /\ pc = "wait_for_zap"
              /\ elapsed < ZapReadyTimeout
              /\ call' = VersionEndpoint
              /\ ready')
        /\ (pc = "wait_for_zap" /\ elapsed < ZapReadyTimeout =>
              /\ call' = VersionEndpoint
              /\ exc' = "none"
              /\ pc' = (IF ready' THEN "target" ELSE "zap_sleep"))
        /\ (pc = "zap_sleep" =>
              pc' = "wait_for_zap" /\ exc' = "none" /\ elapsed' > elapsed)
        /\ (pc = "wait_for_zap" /\ elapsed >= ZapReadyTimeout =>
              /\ call' = "none"
              /\ exc' = "TimeoutError"
              /\ pc' = "except")]_vars

\* A readiness probe of the run has returned 200, and the first call of the
\* Spider, the only phase call so far, has been made.
C35_Witness ==
  /\ ready
  /\ call = SpiderMaxDepthEndpoint
  /\ called = {VersionEndpoint, SpiderMaxDepthEndpoint}
  /\ exc = "none"

\* The entries stop_container leaves in the log when it had a container to
\* stop: the removal, the forced removal, or the failure of both.
StopAttempts == {"stop", "stop_forced", "stop_error"}

\* C36: a run gets its container from start_container alone; the handle is
\* given up only by stop_container, which has then attempted to stop and
\* remove the container, and no run leaves with a handle; when
\* execute_scan leaves, on any path, the container of the run is gone
\* unless the removal and the forced removal both failed.
C36_NoContainerOutlivesItsRun ==
  /\ [][/\ (container # "handle" /\ container' = "handle" =>
              pc = "run" /\ runtime' = "running")
        /\ (container = "handle" /\ container' # "handle" =>
              /\ pc = "stop_container"
              /\ Last(cleanup_log') \in StopAttempts
              /\ (runtime' # "absent" <=> Last(cleanup_log') = "stop_error"))
        /\ (runtime # "running" /\ runtime' = "running" =>
              pc = "run" /\ container' = "handle")]_vars
  /\ [](container = "handle" => scanner /\ pc \notin {"idle", "exit", "done"})
  /\ [](pc \in {"exit", "done"} =>
          /\ container = "None"
          /\ (runtime = "running" =>
                /\ cleanup_log # <<>>
                /\ Last(cleanup_log) = "stop_error")
          /\ (ready \/ exc = "TimeoutError" =>
                /\ cleanup_log # <<>>
                /\ Last(cleanup_log) \in StopAttempts))

\* A run has left on the readiness timeout: its container had been
\* created, and the forced removal took it away after the removal failed.
C36_Witness ==
  /\ pc = "done"
  /\ outcome = "raised"
  /\ exc = "TimeoutError"
  /\ ~ready
  /\ VersionEndpoint \in called
  /\ Last(cleanup_log) = "stop_forced"
  /\ runtime = "absent"
  /\ container = "None"

\* What _api_call raises on a scanner without a zap_url.
NotStarted == [kind |-> "raised", value |-> "ZAP container not started"]

\* C37: while the scanner has no zap_url, before start_container has set
\* it and after stop_container has dropped it, no call of the scanner puts
\* a request on the wire, and every _api_call raises 'ZAP container not
\* started'; stop_container always leaves the scanner without a zap_url,
\* and with a zap_url every _api_call sends its request.
C37_NoRequestWithoutEndpoint ==
  /\ [](api_url = "None" =>
          /\ sent = NoRequest
          /\ result \in {Pending, NotStarted})
  /\ [][/\ (api_url = "None" /\ api_url' = "None" /\ result' # Pending =>
              sent' = NoRequest /\ result' = NotStarted)
        /\ (sent' = NoRequest /\ result' = Pending => api_url' = "None")
        /\ (api_url = "url" /\ result' # Pending =>
              /\ sent'.endpoint \in JsonEndpoints \cup OtherEndpoints
                                      \cup {ActiveScanEndpoint}
              /\ result' # NotStarted)]_vars

\* A call on a scanner without a zap_url has raised 'ZAP container not
\* started' and has sent nothing.
C37_Witness ==
  /\ api_url = "None"
  /\ sent = NoRequest
  /\ result = NotStarted

NoTargetError == "ValueError: Target URL not specified"

\* C38 as stated: a job without a target URL fails with the ValueError and
\* no phase call, its container started and awaited before and stopped and
\* removed by the cleanup.
C38_NoTargetFailsWithValueError ==
  ~cfg.url /\ pc = "done" =>
    /\ outcome = "raised"
    /\ exc = NoTargetError
    /\ Status = "failed"
    /\ called \cap AllPhaseEndpoints = {}
    /\ ready
    /\ VersionEndpoint \in called
    /\ runtime = "absent"

\* C38, amended: a job without a target URL always fails, with status
\* failed and no phase call.  The target is checked after the scanner's
\* initialisation: when the check is made the container is running and a
\* readiness probe has returned 200, the error is the ValueError, and the
\* cleanup attempts to stop and remove the container, which is gone unless
\* the removal and the forced removal both failed.  When the initialisation
\* itself fails, the job fails with that error and the target is never
\* checked.
C38_NoTargetFailsAfterInitialisation ==
  /\ [](~cfg.url =>
          /\ called \cap AllPhaseEndpoints = {}
          /\ \A p \in PhaseSet : phase[p] = "not_run"
          /\ Status \in {"absent", "failed"}
          /\ "vulnerabilities" \notin DOMAIN scan_results)
  /\ [](~cfg.url /\ pc = "done" =>
          /\ outcome = "raised"
          /\ Status = "failed"
          /\ scan_results["error"] = exc
          /\ (IF ready
              THEN /\ exc = NoTargetError
                   /\ VersionEndpoint \in called
                   /\ Last(cleanup_log) \in StopAttempts
                   /\ (runtime # "absent" <=> Last(cleanup_log) = "stop_error")
              ELSE exc \in {"DockerException", "TimeoutError"}))
  /\ [][/\ (pc = "target" /\ ~cfg.url =>
              /\ ready
              /\ container = "handle"
              /\ runtime = "running"
              /\ zap_url = "url"
              /\ exc' = NoTargetError
              /\ pc' = "except")
        /\ (exc' = NoTargetError /\ exc # NoTargetError =>
              pc = "target" /\ ~cfg.url)]_vars

\* A job without a target URL has failed with the ValueError after its
\* container was started and found ready; the cleanup removed the container.
C38_Witness ==
  /\ pc = "done"
  /\ ~cfg.url
  /\ outcome = "raised"
  /\ exc = NoTargetError
  /\ Status = "failed"
  /\ ready
  /\ Last(cleanup_log) = "stop"
  /\ runtime = "absent"

\* The place of a confidence in the ordering low < medium < high <
\* confirmed; 0 for a name outside it.
Tier(name) ==
  CASE name = "low" -> 1 [] name = "medium" -> 2 [] name = "high" -> 3
    [] name = "confirmed" -> 4 [] OTHER -> 0

\* The confidence a finding counts with: low when it has none.
CountedConfidence(vuln) ==
  IF "confidence" \in DOMAIN vuln THEN vuln["confidence"] ELSE "low"

\* The list filter_by_confidence was handed.
Filtered_input == IF stage = "filtered" THEN parsed.vulnerabilities ELSE given

\* C39: for a min_confidence that is one of low, medium, high and
\* confirmed, filter_by_confidence returns, in input order, exactly the
\* findings whose confidence is in the ordering and at or above
\* min_confidence, a finding without a confidence counting as low, so that
\* no false_positive finding is returned; for any other min_confidence,
\* 'false_positive' included, it returns the list it was handed.
C39_FilterByConfidenceTiers ==
  stage \in {"filtered", "filtered_given"} =>
    LET retained(vuln) ==
          /\ Tier(CountedConfidence(vuln)) >= 1
          /\ Tier(CountedConfidence(vuln)) >= Tier(min_confidence)
    IN IF Tier(min_confidence) >= 1
       THEN /\ filtered = SelectSeq(Filtered_input, retained)
            /\ \A k \in 1..Len(filtered) :
                 CountedConfidence(filtered[k]) # "false_positive"
       ELSE filtered = Filtered_input

\* At 'low', of a record without a confidence, a record whose confidence
\* 'Medium' is no name of the ordering and one more without a confidence,
\* the filter has returned the first and the last.
C39_Witness ==
  /\ stage = "filtered_given"
  /\ min_confidence = "low"
  /\ Len(given) = 3
  /\ "confidence" \notin DOMAIN given[1]
  /\ Get(given[2], "confidence", "low") = "Medium"
  /\ "confidence" \notin DOMAIN given[3]
  /\ filtered = <<given[1], given[3]>>

====
